---------------------------- MODULE Spec2Model ----------------------------
(***************************************************************************)
(* Gig-Prepper: the canonical mixing-console model (UniversalMix) and its  *)
(* two export adapters, X32Adapter (Behringer X32 / Midas M32 scene file)  *)
(* and YamahaAdapter (Yamaha CL/QL/TF CSV tables plus guidance documents). *)
(*                                                                         *)
(* Text is modelled structurally: a file is a sequence of lines, a line a  *)
(* sequence of tokens, a token a sequence of strings (literal chunks and   *)
(* single characters).  An optional field is a sequence of length 0        *)
(* (absent, JavaScript undefined) or 1 (present).                          *)
(***************************************************************************)
EXTENDS Integers, Sequences, FiniteSets, TLC

VARIABLES
    mix,              \* the UniversalMix handed to the adapters
    last,             \* the most recent call: its operation, arguments and result
    adapterRegistry,  \* manufacturer -> (model -> factory): the Map of base-adapter
    loadedModules,    \* the adapter modules that have been evaluated
    sessions,         \* session id -> session: the Map of the SessionManager
    now,              \* Date.now(), in hours
    uuids,            \* the number of identifiers uuidv4 has handed out
    chat,             \* the state of the useStreamingChat hook
    abortControllerRef, \* abortControllerRef.current: none, or the controller of a call
    calls,            \* the sendMessage calls of the hook, each with its position
    stream            \* the event stream of the request the endpoint handles

\* the state of the session manager
sessionVars == <<sessions, now, uuids>>

\* the state of the chat hook and of the streaming endpoint
chatVars == <<chat, abortControllerRef, calls, stream>>

\* the state outside the adapters and tools
serviceVars ==
    <<adapterRegistry, loadedModules, sessions, now, uuids, chat, abortControllerRef, calls,
      stream>>

vars ==
    <<mix, last, adapterRegistry, loadedModules, sessions, now, uuids, chat,
      abortControllerRef, calls, stream>>

(***************************************************************************)
(* Bounds of the model                                                     *)
(***************************************************************************)
MaxChannels == 33      \* largest number of channels in a session
MaxAux == 17           \* largest number of aux (mix) buses in a session
MaxMtx == 7            \* largest number of matrix buses in a session
MaxDate == 2           \* calendar days on which an export can run
MaxDca == 10           \* largest DCA number an assignment names
MaxRatio == 25         \* largest compressor ratio of a session (n:1)
MaxFader == 10         \* largest fader level of a session, in dB

(***************************************************************************)
(* Optional values and small helpers                                       *)
(***************************************************************************)
None == <<>>
Some(v) == <<v>>
Has(o) == Len(o) > 0
Val(o) == o[1]

Min2(a, b) == IF a <= b THEN a ELSE b

RECURSIVE FlatMap(_, _)
RECURSIVE RegisterAll(_, _, _)
\* concatenation of the sequences in a sequence of sequences
FlatMap(ss, k) == IF k > Len(ss) THEN <<>> ELSE ss[k] \o FlatMap(ss, k + 1)

Concat(ss) == FlatMap(ss, 1)

\* Array.prototype.filter
Filter(s, P(_)) == SelectSeq(s, P)

\* Array.prototype.find: the first element satisfying P, as an optional
Find(s, P(_)) ==
    LET hits == {i \in 1..Len(s) : P(s[i])}
    IN  IF hits = {} THEN None
        ELSE Some(s[CHOOSE i \in hits : \A j \in hits : i <= j])

(***************************************************************************)
(* Strings: a string is a sequence of one-character strings                *)
(***************************************************************************)
DigitChars == <<"0", "1", "2", "3", "4", "5", "6", "7", "8", "9">>
HexChars == <<"0", "1", "2", "3", "4", "5", "6", "7", "8", "9",
              "a", "b", "c", "d", "e", "f">>

IsDigit(c) == \E i \in 1..10 : DigitChars[i] = c
DigitValue(c) == (CHOOSE i \in 1..10 : DigitChars[i] = c) - 1

RECURSIVE NatToStr(_)
\* Number.prototype.toString for a natural number
NatToStr(n) == IF n < 10 THEN <<DigitChars[n + 1]>>
               ELSE NatToStr(n \div 10) \o <<DigitChars[(n % 10) + 1]>>

\* Number.prototype.toString for an integer
IntToStr(n) == IF n < 0 THEN <<"-">> \o NatToStr(0 - n) ELSE NatToStr(n)

RECURSIVE NatToHex(_)
\* Number.prototype.toString(16) for a natural number
NatToHex(n) == IF n < 16 THEN <<HexChars[n + 1]>>
               ELSE NatToHex(n \div 16) \o <<HexChars[(n % 16) + 1]>>

RECURSIVE PadStart(_, _, _)
\* String.prototype.padStart with a one-character fill
PadStart(s, width, fill) ==
    IF Len(s) >= width THEN s ELSE PadStart(<<fill>> \o s, width, fill)

\* String.prototype.substring(0, n)
Substring0(s, n) == SubSeq(s, 1, Min2(n, Len(s)))

\* `a || b` on an optional string a: undefined and "" are both falsy
OrElse(a, b) == IF Has(a) /\ Len(Val(a)) > 0 THEN Val(a) ELSE b

\* a cut that keeps one character fewer than the limit allows
truncateNameShort(name, maxLength) ==
    IF Len(name) <= maxLength THEN name ELSE Substring0(name, maxLength - 1)

truncateName(name, maxLength) ==
    IF Len(name) <= maxLength THEN name ELSE Substring0(name, maxLength)

\* String.prototype.toLowerCase on the color and model names the model uses
toLowerCase(s) ==
    CASE s = "White" -> "white"
      [] s = "Blue" -> "blue"
      [] s = "Yellow" -> "yellow"
      [] s = "Magenta" -> "magenta"
      [] s = "Orange" -> "orange"
      [] s = "Red" -> "red"
      [] s = "Green" -> "green"
      [] s = "Cyan" -> "cyan"
      [] s = "Purple" -> "purple"
      [] s = "Black" -> "black"
      [] s = "OFF" -> "off"
      [] s = "X32" -> "x32"
      [] s = "QL1" -> "ql1"
      [] OTHER -> s


(***************************************************************************)
(* Numbers.  Level-like quantities (dB values, ratios, times that the      *)
(* adapters format with toFixed) are integers counting hundredths; all     *)
(* other numbers (channel numbers, ports, milliseconds, Hz) are integers.  *)
(***************************************************************************)
Abs(x) == IF x < 0 THEN 0 - x ELSE x

Digit(n) == DigitChars[n + 1]

\* a value of hundredths rendered with the decimals it needs and no more
ShortestDecimal(c) ==
    LET a == Abs(c)
        frac == IF a % 100 = 0 THEN <<>>
                ELSE IF a % 10 = 0 THEN <<".", Digit((a % 100) \div 10)>>
                ELSE <<".", Digit((a % 100) \div 10), Digit(a % 10)>>
    IN  (IF c < 0 THEN <<"-">> ELSE <<>>) \o NatToStr(a \div 100) \o frac

\* Number.prototype.toFixed(1) of a value given in hundredths.  A value that lies
\* halfway between two tenths is rounded away from zero, which is what toFixed does
\* for the halves a binary double holds exactly (x.25 and x.75); the sessions use
\* no other halves.
toFixed1(c) ==
    LET t == (Abs(c) + 5) \div 10
    IN  (IF c < 0 THEN <<"-">> ELSE <<>>)
        \o NatToStr(t \div 10) \o <<".", Digit(t % 10)>>

\* Number.prototype.toFixed(2) of a value given in hundredths
toFixed2(c) ==
    LET a == Abs(c)
    IN  (IF c < 0 THEN <<"-">> ELSE <<>>)
        \o NatToStr(a \div 100) \o <<".", Digit((a % 100) \div 10), Digit(a % 10)>>

\* Number.prototype.toString (template-literal rendering) of a value in hundredths
NumToStr(c) ==
    LET a == Abs(c)
        frac == IF a % 100 = 0 THEN <<>>
                ELSE IF a % 10 = 0 THEN <<".", Digit((a % 100) \div 10)>>
                ELSE <<".", Digit((a % 100) \div 10), Digit(a % 10)>>
    IN  (IF c < 0 THEN <<"-">> ELSE <<>>) \o NatToStr(a \div 100) \o frac

(***************************************************************************)
(* Canonical model: factory functions of universal-mix                     *)
(***************************************************************************)
createDefaultEQ ==
    [enabled |-> TRUE,
     bands |-> << [enabled |-> FALSE, type |-> "lowshelf", frequency |-> 100, gain |-> 0, q |-> 1],
                  [enabled |-> FALSE, type |-> "parametric", frequency |-> 400, gain |-> 0, q |-> 1],
                  [enabled |-> FALSE, type |-> "parametric", frequency |-> 2000, gain |-> 0, q |-> 1],
                  [enabled |-> FALSE, type |-> "highshelf", frequency |-> 8000, gain |-> 0, q |-> 1] >>,
     highPassFilter |-> [enabled |-> FALSE, frequency |-> 80, slope |-> 18]]

createDefaultGate ==
    [enabled |-> FALSE, threshold |-> -4000, range |-> 4000,
     attack |-> 1, hold |-> 50, release |-> 200]

createDefaultCompressor ==
    [enabled |-> FALSE, threshold |-> -2000, ratio |-> 400, attack |-> 1000,
     release |-> 100, knee |-> "soft", makeupGain |-> 0, autoMakeup |-> FALSE]

createDefaultChannel(number, name) ==
    [id |-> <<"ch-">> \o IntToStr(number),
     number |-> number,
     name |-> name,
     shortName |-> Some(Substring0(name, 6)),
     type |-> "mono",
     color |-> Some([name |-> "white"]),
     icon |-> None,
     input |-> Some([source |-> [type |-> "local", port |-> number],
                     inputType |-> "mic",
                     phantomPower |-> "off",
                     phase |-> FALSE,
                     gain |-> 0,
                     pad |-> FALSE]),
     eq |-> Some(createDefaultEQ),
     dynamics |-> Some([gate |-> createDefaultGate, compressor |-> createDefaultCompressor]),
     fader |-> -9600,
     mute |-> FALSE,
     pan |-> Some(0),
     assignedToMain |-> TRUE,
     busSends |-> Some(<<>>),
     effectSends |-> <<>>,
     dcaAssignments |-> Some(<<>>),
     notes |-> None,
     category |-> None,
     sourceDescription |-> None]

\* getConsoleConfig: the per-model counts of a console
getConsoleConfig(manufacturer, model) ==
    LET lower == toLowerCase(model)
        ql1 == [inputChannelCount |-> 32, mixBusCount |-> 16, matrixCount |-> 8]
        cfg == CASE lower = "ql1" -> ql1
                 [] lower = "tf1" -> [inputChannelCount |-> 16, mixBusCount |-> 8, matrixCount |-> 0]
                 [] lower = "tf3" -> [inputChannelCount |-> 24, mixBusCount |-> 8, matrixCount |-> 0]
                 [] lower = "cl5" -> [inputChannelCount |-> 72, mixBusCount |-> 24, matrixCount |-> 8]
                 [] lower = "x32" -> [inputChannelCount |-> 32, mixBusCount |-> 16, matrixCount |-> 6]
                 [] lower = "m32" -> [inputChannelCount |-> 32, mixBusCount |-> 16, matrixCount |-> 6]
                 [] OTHER -> ql1
    IN  [manufacturer |-> manufacturer,
         model |-> lower,
         inputChannelCount |-> cfg.inputChannelCount,
         mixBusCount |-> cfg.mixBusCount,
         matrixCount |-> cfg.matrixCount,
         dcaCount |-> 8,
         stageboxes |-> <<>>]

\* const monitorNames of buildDefaultBuses
monitorNames ==
    << <<"M", "o", "n", " ", "1">>, <<"M", "o", "n", " ", "2">>, <<"M", "o", "n", " ", "3">>,
       <<"M", "o", "n", " ", "4">>, <<"I", "E", "M", " ", "L">>, <<"I", "E", "M", " ", "R">> >>

\* the bus that the loop body of buildDefaultBuses pushes as number i, given the type
\* of the bus (the loop itself pushes aux buses 1..6)
DefaultBus(i, type) ==
    [id |-> <<"bus-">> \o IntToStr(i),
     number |-> i,
     name |-> IF i <= Len(monitorNames) THEN monitorNames[i]
              ELSE <<"M", "i", "x", " ">> \o IntToStr(i),
     shortName |-> Some(IF i <= Len(monitorNames) THEN Substring0(monitorNames[i], 4)
                        ELSE <<"M", "X">> \o IntToStr(i)),
     type |-> type,
     stereo |-> FALSE,
     color |-> Some([name |-> "Blue"]),
     fader |-> Some(-1000),
     mute |-> FALSE,
     output |-> None,
     purpose |-> Some("monitor"),
     feedDescription |-> None,
     notes |-> None]

\* const dcaNames of buildDefaultDCAs
dcaNames ==
    << <<"D", "r", "u", "m", "s">>, <<"B", "a", "s", "s">>, <<"G", "t", "r">>,
       <<"K", "e", "y", "s">>, <<"V", "o", "c", "a", "l", "s">>, <<"F", "X">>,
       <<"B", "a", "n", "d">>, <<"A", "l", "l">> >>

\* the DCA that buildDefaultDCAs makes of the i-th name; a DCA added to a session
\* beyond the eighth is named after its number
DefaultDCA(i) ==
    LET name == IF i <= Len(dcaNames) THEN dcaNames[i]
                ELSE <<"D", "C", "A", " ">> \o IntToStr(i)
    IN  [id |-> <<"dca-">> \o IntToStr(i),
         number |-> i,
         name |-> name,
         shortName |-> Some(Substring0(name, 4)),
         color |-> Some([name |-> "White"]),
         fader |-> Some(0),
         mute |-> FALSE]

createEmptyMix(gigName) ==
    [version |-> "1.0",
     gig |-> Some([name |-> gigName,
                   date |-> <<"2024-06-15">>,
                   artist |-> Some([name |-> <<>>, genre |-> <<>>]),
                   venue |-> Some([name |-> <<>>])]),
     console |-> getConsoleConfig("yamaha", "ql1"),
     currentScene |-> [name |-> "Main",
                       channels |-> <<>>,
                       buses |-> <<>>,
                       dcas |-> <<>>,
                       effects |-> <<>>,
                       premiumRack |-> None],
     aiNotes |-> None]


(***************************************************************************)
(* The sessions the adapters are given                                     *)
(***************************************************************************)
VeryLongName ==
    <<"V", "e", "r", "y", " ", "L", "o", "n", "g", " ", "C", "h", "a", "n", "n",
      "e", "l", " ", "N", "a", "m", "e">>

\* the name of the i-th channel of a channel list
ChannelName(i) == <<"C", "h", " ">> \o IntToStr(i)

\* a DCA identifier in the form buildDefaultDCAs gives it
DcaId(n) == <<"d", "c", "a", "-">> \o IntToStr(n)

ChannelProfiles ==
    {"default", "built", "limiter", "group", "noInput", "noColor", "noEq", "noDynamics"}

\* a channel as buildChannel and later edits leave it, or as a parsed JSON
\* document that lacks a sub-object gives it
MkChannel(number, profile) ==
    LET d == createDefaultChannel(number, ChannelName(number))
    IN  CASE profile = "built" ->
               [d EXCEPT !.name = VeryLongName,
                         !.shortName = None,
                         !.color = Some([name |-> "Yellow"]),
                         !.category = Some("guitar"),
                         !.icon = Some("E.Guitar"),
                         !.input = Some([Val(d.input) EXCEPT !.phantomPower = "on",
                                                             !.gain = 2550,
                                                             !.source = [type |-> "dante", port |-> number]]),
                         !.dynamics = Some([gate |-> [createDefaultGate EXCEPT !.enabled = TRUE],
                                            compressor |-> [createDefaultCompressor EXCEPT !.enabled = TRUE]]),
                         !.fader = -525,
                         !.pan = None,
                         !.dcaAssignments = Some(<<DcaId(1), DcaId(8)>>)]
          [] profile = "limiter" ->
               [d EXCEPT !.color = Some([name |-> "teal"]),
                         !.dynamics = Some([gate |-> createDefaultGate,
                                            compressor |-> [createDefaultCompressor EXCEPT
                                                               !.enabled = TRUE, !.ratio = 2000,
                                                               !.knee = "hard", !.autoMakeup = TRUE,
                                                               !.makeupGain = 350]]),
                         !.fader = -9000,
                         !.mute = TRUE,
                         !.dcaAssignments = Some(<<DcaId(9), DcaId(3), <<"v", "o", "x">> >>)]
          [] profile = "group" ->
               [d EXCEPT !.type = "group", !.dcaAssignments = None]
          [] profile = "noInput" -> [d EXCEPT !.input = None]
          [] profile = "noColor" -> [d EXCEPT !.color = None]
          [] profile = "noEq" -> [d EXCEPT !.eq = None]
          [] profile = "noDynamics" -> [d EXCEPT !.dynamics = None]
          [] OTHER -> d

DefaultChannels(n) == [i \in 1..n |-> createDefaultChannel(i, ChannelName(i))]

\* nAux aux buses numbered 1..nAux followed by nMtx matrices numbered 1..nMtx
DefaultBuses(nAux, nMtx) ==
    [i \in 1..nAux |-> DefaultBus(i, "aux")] \o [i \in 1..nMtx |-> DefaultBus(i, "matrix")]

GigName == <<"G", "i", "g">>

MkMix(manufacturer, model, channels, buses, dcas) ==
    LET m == createEmptyMix(GigName)
    IN  [m EXCEPT !.console = getConsoleConfig(manufacturer, model),
                  !.currentScene.channels = channels,
                  !.currentScene.buses = buses,
                  !.currentScene.dcas = dcas]

Consoles ==
    { <<"behringer", "x32">>, <<"midas", "m32">>, <<"yamaha", "ql1">>,
      <<"yamaha", "tf1">>, <<"behringer", "ql1">>, <<"allen-heath", "sq-5">> }

ChannelCounts == {0, 16, 17, 32, MaxChannels}

BusCounts == { <<16, 6>>, <<8, 1>>, <<MaxAux, 0>>, <<0, MaxMtx>> }

\* sessions of default channels, of every size on either side of the consoles' limits
ChannelSizedMixes ==
    { MkMix(c[1], c[2], DefaultChannels(n), DefaultBuses(2, 1), <<DefaultDCA(1), DefaultDCA(2)>>) :
        c \in Consoles, n \in ChannelCounts }

\* sessions of default buses, of every size on either side of the consoles' limits
BusSizedMixes ==
    { MkMix(c[1], c[2], DefaultChannels(2), DefaultBuses(b[1], b[2]), <<>>) :
        c \in Consoles, b \in BusCounts }

TwoTargets == { <<"behringer", "x32">>, <<"yamaha", "ql1">> }

\* sessions of one or two channels: the second channel repeats the number of the
\* first, follows it, or lies outside every console's range
ProfiledMixes ==
    { MkMix(c[1], c[2], <<MkChannel(1, p)>>, DefaultBuses(1, 0), <<DefaultDCA(1)>>) :
        c \in TwoTargets, p \in ChannelProfiles }
    \cup
    { MkMix(c[1], c[2], <<MkChannel(1, p), MkChannel(n, "default")>>, <<>>, <<>>) :
        c \in TwoTargets, p \in {"default", "built"}, n \in {1, 2, 40} }

\* sessions whose gig block lacks a part (a parsed document is not checked against
\* the interface), or names a genre
GigVariants == {"noGig", "noArtist", "noVenue", "noName", "rock", "folk", "podcast"}

WithGig(m, variant) ==
    LET gig == Val(m.gig)
    IN  CASE variant = "noGig" -> [m EXCEPT !.gig = None]
          [] variant = "noArtist" -> [m EXCEPT !.gig = Some([gig EXCEPT !.artist = None])]
          [] variant = "noVenue" -> [m EXCEPT !.gig = Some([gig EXCEPT !.venue = None])]
          [] variant = "noName" -> [m EXCEPT !.gig = Some([gig EXCEPT !.name = <<>>])]
          [] OTHER -> [m EXCEPT !.gig = Some([gig EXCEPT
                                    !.artist = Some([name |-> <<"B", "a", "n", "d">>,
                                                     genre |-> <<variant>>])])]

GigMixes ==
    { WithGig(MkMix(c[1], c[2], <<MkChannel(1, "built")>>, DefaultBuses(1, 1), <<DefaultDCA(1)>>), v) :
        c \in TwoTargets, v \in GigVariants }

\* the lists of DCA identifiers a channel carries: identifiers in the form
\* buildDefaultDCAs gives them or bare numbers, for numbers on either side of 1..8,
\* and identifiers that name no number
DcaAssignmentLists ==
    { <<DcaId(n)>> : n \in 0..MaxDca }
    \cup { <<IntToStr(n)>> : n \in {0, 1, 8, MaxDca} }
    \cup { <<DcaId(a), DcaId(b)>> : a \in {1, 4, 8}, b \in {2, 4, MaxDca} }
    \cup { <<DcaId(1), DcaId(2), DcaId(3), DcaId(4), DcaId(5), DcaId(6), DcaId(7), DcaId(8)>>,
           << <<"v", "o", "x">>, DcaId(MaxDca), DcaId(5)>>,
           << <<"d", "c", "a">> >> }

DcaMixes ==
    { MkMix("behringer", "x32",
            <<[MkChannel(1, "default") EXCEPT !.dcaAssignments = Some(ids)]>>, <<>>,
            <<DefaultDCA(1)>>) : ids \in DcaAssignmentLists }

Mixes == ChannelSizedMixes \cup BusSizedMixes \cup ProfiledMixes \cup GigMixes \cup DcaMixes

(***************************************************************************)
(* Sessions of one configured channel, bus, matrix and DCA: each family     *)
(* varies the settings that one part of the adapters encodes                *)
(***************************************************************************)
\* compressor ratios in hundredths, on either side of the limiter threshold of 20:1
CompressorRatios == {150, 400, 1990, 2000, 100 * MaxRatio}

\* fader levels in hundredths of a dB, on either side of the floor of -90 dB
FaderLevels == {-9600, -9000, -8990, -525, 0, 100 * MaxFader}

\* preamp gains in hundredths of a dB
GainLevels == {-1200, 0, 2550, 4575}

\* a session of channel ch, one aux bus, one matrix and one DCA, for a console
DetailMix(manufacturer, model, ch, bus, matrix, dca) ==
    MkMix(manufacturer, model, <<ch, createDefaultChannel(2, ChannelName(2))>>,
          <<bus, matrix>>, <<dca>>)

\* the session around one channel, everything else as the factories leave it
ChannelMix(manufacturer, model, ch) ==
    DetailMix(manufacturer, model, ch, DefaultBus(1, "aux"), DefaultBus(1, "matrix"), DefaultDCA(1))

CompressorMixes ==
    { ChannelMix("behringer", "x32",
        [createDefaultChannel(1, ChannelName(1)) EXCEPT
            !.dynamics = Some([gate |-> createDefaultGate,
                               compressor |-> [createDefaultCompressor EXCEPT
                                   !.enabled = on, !.ratio = ratio, !.threshold = -1850,
                                   !.attack = 1500, !.release = 120,
                                   !.knee = IF auto THEN "hard" ELSE "soft",
                                   !.autoMakeup = auto, !.makeupGain = 350]])]) :
        on \in BOOLEAN, auto \in BOOLEAN, ratio \in CompressorRatios }

GateMixes ==
    { ChannelMix("behringer", "x32",
        [createDefaultChannel(1, ChannelName(1)) EXCEPT
            !.dynamics = Some([gate |-> [createDefaultGate EXCEPT
                                   !.enabled = on, !.threshold = threshold, !.range = range,
                                   !.attack = 5, !.hold = 80, !.release = 300],
                               compressor |-> createDefaultCompressor])]) :
        on \in BOOLEAN, threshold \in {-4000, -3250}, range \in {4000, 2550} }

EqMixes ==
    { ChannelMix("behringer", "x32",
        [createDefaultChannel(1, ChannelName(1)) EXCEPT
            !.eq = Some([createDefaultEQ EXCEPT
                !.highPassFilter.enabled = TRUE,
                !.bands = [k \in 1..4 |->
                    [createDefaultEQ.bands[k] EXCEPT !.enabled = TRUE, !.frequency = k * freq,
                                                     !.q = k, !.gain = gain]]])]) :
        freq \in {100, 250}, gain \in {0, 300, -450, 1225} }

\* one fader level on the channel, the aux bus, the matrix and the DCA
FaderMixes ==
    { DetailMix("behringer", "x32",
        [createDefaultChannel(1, ChannelName(1)) EXCEPT !.fader = f],
        [DefaultBus(1, "aux") EXCEPT !.fader = Some(f)],
        [DefaultBus(1, "matrix") EXCEPT !.fader = Some(f)],
        [DefaultDCA(1) EXCEPT !.fader = Some(f)]) : f \in FaderLevels }
    \cup
    { DetailMix("behringer", "x32", createDefaultChannel(1, ChannelName(1)),
        [DefaultBus(1, "aux") EXCEPT !.fader = None],
        [DefaultBus(1, "matrix") EXCEPT !.fader = None],
        [DefaultDCA(1) EXCEPT !.fader = None]) }

GainMixes ==
    { ChannelMix("behringer", "x32",
        [createDefaultChannel(1, ChannelName(1)) EXCEPT
            !.input = Some([Val(@) EXCEPT !.gain = gain])]) : gain \in GainLevels }

\* the short names a channel called VeryLongName carries: none, the one buildChannel
\* sets (the first 8 characters) and the one createDefaultChannel sets (the first 6)
ShortNameOrigins == {"none", "buildChannel", "createDefaultChannel"}

LongNameMixes ==
    { ChannelMix("yamaha", "ql1",
        [createDefaultChannel(1, VeryLongName) EXCEPT
            !.type = type,
            !.shortName = CASE origin = "none" -> None
                            [] origin = "buildChannel" -> Some(Substring0(VeryLongName, 8))
                            [] OTHER -> @]) :
        origin \in ShortNameOrigins, type \in {"mono", "stereo", "group"} }

MicNote == <<"M", "i", "c", ":", " ", "S", "M", "5", "8">>

PhantomMixes ==
    { ChannelMix("yamaha", "ql1",
        [createDefaultChannel(1, ChannelName(1)) EXCEPT
            !.input = Some([Val(@) EXCEPT !.phantomPower = phantom]),
            !.notes = notes,
            !.sourceDescription = description]) :
        phantom \in {"on", "off", "auto"}, notes \in {None, Some(MicNote)},
        description \in {None, Some("KM184")} }

ColorMixes ==
    { ChannelMix("behringer", "x32",
        [createDefaultChannel(1, ChannelName(1)) EXCEPT !.color = color]) :
        color \in { None, Some([name |-> "black"]), Some([name |-> "off"]),
                    Some([name |-> "red"]), Some([name |-> "White"]), Some([name |-> "teal"]) } }

\* one aux bus, matrix or DCA called VeryLongName without a short name
LongOutputNameMixes ==
    { DetailMix("yamaha", "ql1",
        [createDefaultChannel(1, ChannelName(1)) EXCEPT
            !.input = Some([Val(@) EXCEPT !.phantomPower = phantom])],
        IF which = "aux" THEN [DefaultBus(1, "aux") EXCEPT !.name = VeryLongName, !.shortName = None]
        ELSE DefaultBus(1, "aux"),
        IF which = "matrix"
        THEN [DefaultBus(1, "matrix") EXCEPT !.name = VeryLongName, !.shortName = None]
        ELSE DefaultBus(1, "matrix"),
        IF which = "dca" THEN [DefaultDCA(1) EXCEPT !.name = VeryLongName, !.shortName = None]
        ELSE DefaultDCA(1)) :
        which \in {"aux", "matrix", "dca"}, phantom \in {"on", "off"} }

DetailMixes ==
    CompressorMixes \cup GateMixes \cup EqMixes \cup FaderMixes \cup GainMixes
    \cup LongNameMixes \cup PhantomMixes \cup ColorMixes \cup LongOutputNameMixes

(***************************************************************************)
(* validate                                                                *)
(***************************************************************************)
IsAux(b) == b.type = "aux"
IsMatrix(b) == b.type = "matrix"

\* the messages f(s[i]) of the elements of s, in order, f giving a list per element
RECURSIVE ForEach(_, _, _)
ForEach(s, f(_), k) == IF k > Len(s) THEN <<>> ELSE f(s[k]) \o ForEach(s, f, k + 1)

\* the channel-count test with the limit off by one
X32TooManyChannelsOffByOne(n) == n > 33

\* if (mix.currentScene.channels.length > 32)
X32TooManyChannels(n) == n > 32

X32Adapter_validate(m) ==
    LET channels == m.currentScene.channels
        auxBuses == Filter(m.currentScene.buses, IsAux)
        matrices == Filter(m.currentScene.buses, IsMatrix)
        nameWarning(ch) ==
            IF Len(OrElse(ch.shortName, ch.name)) > 12
            THEN << <<"Channel \"">> \o ch.name \o <<"\" name will be truncated to 12 characters">> >>
            ELSE <<>>
        errors ==
            (IF m.console.manufacturer # "behringer" /\ m.console.manufacturer # "midas"
             THEN << <<"Manufacturer ", m.console.manufacturer, " is not X32/M32 compatible">> >>
             ELSE <<>>)
            \o (IF X32TooManyChannels(Len(channels))
                THEN << <<"Too many channels: ">> \o IntToStr(Len(channels)) \o <<" (max 32)">> >>
                ELSE <<>>)
            \o (IF Len(auxBuses) > 16
                THEN << <<"Too many mix buses: ">> \o IntToStr(Len(auxBuses)) \o <<" (max 16)">> >>
                ELSE <<>>)
            \o (IF Len(matrices) > 6
                THEN << <<"Too many matrices: ">> \o IntToStr(Len(matrices)) \o <<" (max 6)">> >>
                ELSE <<>>)
    IN  [threw |-> FALSE,
         isValid |-> Len(errors) = 0,
         errors |-> errors,
         warnings |-> ForEach(channels, nameWarning, 1),
         suggestions |-> IF Len(channels) > 32
                         THEN << <<"Consider using aux inputs or reducing channel count">> >>
                         ELSE <<>>]

YamahaSupportedModels == {"cl1", "cl3", "cl5", "ql1", "ql5", "tf1", "tf3", "tf5"}

\* maxChannels[model] || 32
YamahaMaxChannels(model) ==
    CASE model = "cl1" -> 48 [] model = "cl3" -> 64 [] model = "cl5" -> 72
      [] model = "ql1" -> 32 [] model = "ql5" -> 64
      [] model = "tf1" -> 16 [] model = "tf3" -> 24 [] model = "tf5" -> 32
      [] OTHER -> 32

\* the test of a name for one of the six Swedish letters, each letter one character
\* of the model written by an ASCII name
HasSwedishChar(name) ==
    \E i \in 1..Len(name) : name[i] \in {"a-ring", "a-uml", "o-uml", "A-ring", "A-uml", "O-uml"}

YamahaAdapter_validate(m) ==
    LET channels == m.currentScene.channels
        max == YamahaMaxChannels(m.console.model)
        nameWarnings(ch) ==
            LET name == OrElse(ch.shortName, ch.name)
            IN  (IF Len(name) > 8
                 THEN << <<"\"">> \o ch.name \o <<"\" ar ">> \o IntToStr(Len(name)) \o <<" tecken (max 8)">> >>
                 ELSE <<>>)
                \o (IF HasSwedishChar(name)
                    THEN << <<"\"">> \o name \o <<"\" innehaller svenska tecken">> >>
                    ELSE <<>>)
        nameSuggestions(ch) ==
            LET name == OrElse(ch.shortName, ch.name)
            IN  (IF Len(name) > 8 THEN << <<"Forkorta \"">> \o ch.name \o <<"\"">> >> ELSE <<>>)
                \o (IF HasSwedishChar(name) THEN << <<"Ersatt">> >> ELSE <<>>)
        errors ==
            (IF m.console.manufacturer # "yamaha"
             THEN << <<"Fel tillverkare: ", m.console.manufacturer>> >>
             ELSE <<>>)
            \o (IF m.console.model \notin YamahaSupportedModels
                THEN << <<"Modellen ", m.console.model, " stods inte">> >>
                ELSE <<>>)
            \o (IF Len(channels) > max
                THEN << <<"For manga kanaler: ">> \o IntToStr(Len(channels))
                        \o <<" (max ">> \o IntToStr(max) \o <<")">> >>
                ELSE <<>>)
    IN  [threw |-> FALSE,
         isValid |-> Len(errors) = 0,
         errors |-> errors,
         warnings |-> ForEach(channels, nameWarnings, 1),
         suggestions |-> ForEach(channels, nameSuggestions, 1)]

Adapters == {"x32", "yamaha"}

validate(adapter, m) ==
    IF adapter = "x32" THEN X32Adapter_validate(m) ELSE YamahaAdapter_validate(m)


(***************************************************************************)
(* X32 / M32 scene file                                                    *)
(***************************************************************************)
Lit(s) == <<s>>
Quoted(str) == <<"\"">> \o str \o <<"\"">>
Blank == <<>>

\* num.toString().padStart(2, '0')
Pad2(n) == PadStart(IntToStr(n), 2, "0")

\* X32_COLOR_MAP[name], absent for a name that is no key of the table
X32_COLOR_MAP(name) ==
    CASE name \in {"off", "black"} -> Some(0)
      [] name \in {"red", "orange"} -> Some(1)
      [] name \in {"green", "lime"} -> Some(2)
      [] name = "yellow" -> Some(3)
      [] name = "blue" -> Some(4)
      [] name \in {"magenta", "pink", "purple"} -> Some(5)
      [] name = "cyan" -> Some(6)
      [] name = "white" -> Some(7)
      [] OTHER -> None

\* X32_ICON_MAP[name], absent for a name that is no key of the table
X32_ICON_MAP(name) ==
    CASE name \in {"Blank", "Inst"} -> Some(1)
      [] name = "Dynamic" -> Some(2)
      [] name = "Condenser" -> Some(3)
      [] name = "Headset" -> Some(4)
      [] name = "A.Guitar" -> Some(5)
      [] name = "E.Guitar" -> Some(6)
      [] name = "E.Bass" -> Some(7)
      [] name = "Piano" -> Some(8)
      [] name = "Keyboard" -> Some(9)
      [] name = "Strings" -> Some(10)
      [] name = "Trumpet" -> Some(11)
      [] name = "Sax" -> Some(12)
      [] name = "Drums" -> Some(13)
      [] name = "Kick" -> Some(14)
      [] name = "Snare" -> Some(15)
      [] name = "Hi-Hat" -> Some(16)
      [] name = "Hi-Tom" -> Some(17)
      [] name = "Ride" -> Some(18)
      [] name = "Conga" -> Some(19)
      [] name = "Perc." -> Some(20)
      [] name = "Male" -> Some(21)
      [] name = "Female" -> Some(22)
      [] name = "Media1" -> Some(60)
      [] name = "Wedge" -> Some(70)
      [] name = "Speaker" -> Some(71)
      [] name = "Fader" -> Some(72)
      [] name = "DI" -> Some(73)
      [] name = "Podium" -> Some(74)
      [] name = "Audience" -> Some(75)
      [] OTHER -> None

\* `table[key] || dflt` for a numeric table entry: absent and 0 are both falsy
NumOr(entry, dflt) == IF Has(entry) /\ Val(entry) # 0 THEN Val(entry) ELSE dflt

\* X32_COLOR_MAP[color?.name?.toLowerCase() || fallback] || dflt
X32Color(color, fallback, dflt) ==
    NumOr(X32_COLOR_MAP(IF Has(color) THEN toLowerCase(Val(color).name) ELSE fallback), dflt)

getX32Source(channel) ==
    IF ~Has(channel.input) THEN <<Lit("IN")>>
    ELSE LET source == Val(channel.input).source
         IN  CASE source.type = "local" -> <<Lit("IN"), Pad2(source.port)>>
               [] source.type \in {"aes", "dante", "tio", "rio"} -> <<Lit("AES50A"), Pad2(source.port)>>
               [] source.type = "usb" -> <<Lit("USB"), Pad2(source.port)>>
               [] OTHER -> <<Lit("IN"), Pad2(channel.number)>>

\* the first maximal run of digits of a string: dcaId.match(/(\d+)/)
FirstDigitRun(str) ==
    LET starts == {i \in 1..Len(str) : IsDigit(str[i])}
    IN  IF starts = {} THEN None
        ELSE LET b == CHOOSE i \in starts : \A j \in starts : i <= j
                 ends == {e \in b..Len(str) :
                            /\ \A k \in b..e : IsDigit(str[k])
                            /\ (e = Len(str) \/ ~IsDigit(str[e + 1]))}
                 e == CHOOSE x \in ends : TRUE
             IN  Some(SubSeq(str, b, e))

RECURSIVE parseInt(_)
\* parseInt(digits, 10) of a non-empty digit string
parseInt(digits) ==
    IF Len(digits) = 1 THEN DigitValue(digits[1])
    ELSE 10 * parseInt(SubSeq(digits, 1, Len(digits) - 1)) + DigitValue(digits[Len(digits)])

\* match ? parseInt(match[1], 10) : 0
DcaNumberOf(dcaId) ==
    LET match == FirstDigitRun(dcaId)
    IN  IF Has(match) THEN parseInt(Val(match)) ELSE 0

RECURSIVE Pow2(_)
\* 1 << k
Pow2(k) == IF k = 0 THEN 1 ELSE 2 * Pow2(k - 1)

RECURSIVE BitOr(_, _)
\* a | b on naturals
BitOr(a, b) ==
    IF a = 0 THEN b
    ELSE IF b = 0 THEN a
    ELSE 2 * BitOr(a \div 2, b \div 2) + (IF a % 2 = 1 \/ b % 2 = 1 THEN 1 ELSE 0)

\* the bit of a DCA number shifted by the number itself: 1 << dcaNum
DcaBitUnshifted(dcaNum) == IF dcaNum >= 1 /\ dcaNum <= 8 THEN Pow2(dcaNum) ELSE 0

\* the bit a DCA number contributes: 1 << (dcaNum - 1) when 1 <= dcaNum <= 8
DcaBit(dcaNum) == IF dcaNum >= 1 /\ dcaNum <= 8 THEN Pow2(dcaNum - 1) ELSE 0

RECURSIVE DcaBits(_, _, _)
\* the loop over channel.dcaAssignments || [] that ORs the bits together
DcaBits(ids, k, acc) ==
    IF k > Len(ids) THEN acc
    ELSE DcaBits(ids, k + 1, BitOr(acc, DcaBit(DcaNumberOf(ids[k]))))

\* a fader that reads '-oo' only below -90 dB
FaderTokenBelowFloor(fader) == IF fader < -9000 THEN Lit("-oo") ELSE toFixed1(fader)

\* a ratio that reads LIM only above 20:1
RatioTokenAbove(ratio) == IF ratio > 2000 THEN Lit("LIM") ELSE toFixed1(ratio)

\* c.ratio >= 20 ? 'LIM' : c.ratio.toFixed(1)
RatioToken(ratio) == IF ratio >= 2000 THEN Lit("LIM") ELSE toFixed1(ratio)

\* a fader: '-oo' at or below -90 dB, else toFixed(1)
FaderToken(fader) == IF fader <= -9000 THEN Lit("-oo") ELSE toFixed1(fader)

\* the records of an empty channel slot
DefaultChannelSection(prefix) ==
    << <<prefix \o <<"/config">>, Lit("\"\""), Lit("1"), Lit("GN"), Lit("1")>>,
       <<prefix \o <<"/preamp">>, Lit("-12.0"), Lit("OFF"), Lit("OFF"), Lit("0")>>,
       <<prefix \o <<"/gate">>, Lit("OFF"), Lit("EXP2"), Lit("-80.0"), Lit("60.0"),
         Lit("1"), Lit("500"), Lit("2000"), Lit("0")>>,
       <<prefix \o <<"/dyn">>, Lit("OFF"), Lit("COMP"), Lit("RMS"), Lit("LIN"), Lit("0.0"),
         Lit("3.0"), Lit("1"), Lit("10.0"), Lit("10.0"), Lit("150"), Lit("1"), Lit("0.0"),
         Lit("OFF"), Lit("100")>>,
       <<prefix \o <<"/insert">>, Lit("OFF"), Lit("OFF"), Lit("POST")>>,
       <<prefix \o <<"/eq">>, Lit("ON")>>,
       <<prefix \o <<"/eq/1">>, Lit("PEQ"), Lit("100.0"), Lit("1.000"), Lit("0.00")>>,
       <<prefix \o <<"/eq/2">>, Lit("PEQ"), Lit("400.0"), Lit("2.000"), Lit("0.00")>>,
       <<prefix \o <<"/eq/3">>, Lit("PEQ"), Lit("1600.0"), Lit("2.000"), Lit("0.00")>>,
       <<prefix \o <<"/eq/4">>, Lit("HShv"), Lit("6300.0"), Lit("2.000"), Lit("0.00")>>,
       <<prefix \o <<"/mix">>, Lit("ON"), Lit("0.0"), Lit("OFF"), Lit("-oo"), Lit("ST"), Lit("0")>>,
       <<prefix \o <<"/grp">>, Lit("0x0000"), Lit("0x00")>>,
       <<prefix \o <<"/automix">>, Lit("OFF"), Lit("0")>> >>

\* one EQ band line: frequency || dfltFreq, q || dfltQ, (gain || 0).toFixed(2)
EqBandLine(prefix, k, kind, bands, dfltFreq, dfltQ) ==
    LET has == k <= Len(bands)
        freq == IF has /\ bands[k].frequency # 0 THEN bands[k].frequency ELSE dfltFreq
        q == IF has /\ bands[k].q # 0 THEN bands[k].q ELSE dfltQ
        gain == IF has THEN bands[k].gain ELSE 0
        band == CASE k = 1 -> "/eq/1" [] k = 2 -> "/eq/2" [] k = 3 -> "/eq/3" [] OTHER -> "/eq/4"
    IN  <<prefix \o <<band>>, Lit(kind), IntToStr(freq), IntToStr(q), toFixed2(gain)>>

\* generateChannelSection(num, channel) for a channel that is present
ConfiguredChannelSection(prefix, channel) ==
    LET name == truncateName(OrElse(channel.shortName, channel.name), 12)
        icon == NumOr(X32_ICON_MAP(IF Has(channel.icon) THEN Val(channel.icon) ELSE "Blank"), 1)
        color == X32Color(channel.color, "white", 7)
        input == channel.input
        gain == IF Has(input) THEN Val(input).gain ELSE 0
        phantom == IF Has(input) /\ Val(input).phantomPower = "on" THEN "ON" ELSE "OFF"
        pad == IF Has(input) /\ Val(input).pad THEN "ON" ELSE "OFF"
        dyn == channel.dynamics
        gateLine ==
            IF Has(dyn) /\ Val(dyn).gate.enabled
            THEN LET g == Val(dyn).gate
                 IN  <<prefix \o <<"/gate">>, Lit("ON"), Lit("EXP2"), toFixed1(g.threshold),
                       toFixed1(g.range), IntToStr(g.attack), IntToStr(g.hold),
                       IntToStr(g.release), Lit("0")>>
            ELSE <<prefix \o <<"/gate">>, Lit("OFF"), Lit("EXP2"), Lit("-80.0"), Lit("60.0"),
                   Lit("1"), Lit("500"), Lit("2000"), Lit("0")>>
        dynLine ==
            IF Has(dyn) /\ Val(dyn).compressor.enabled
            THEN LET c == Val(dyn).compressor
                     ratio == RatioToken(c.ratio)
                     knee == IF c.knee = "hard" THEN "LOG" ELSE "LIN"
                     makeup == IF c.autoMakeup THEN c.makeupGain ELSE 0
                 IN  <<prefix \o <<"/dyn">>, Lit("ON"), Lit("COMP"), Lit("RMS"), Lit(knee),
                       toFixed1(c.threshold), ratio, Lit("1"), toFixed1(c.attack), Lit("10.0"),
                       IntToStr(c.release), Lit("1"), toFixed1(makeup), Lit("OFF"), Lit("100")>>
            ELSE <<prefix \o <<"/dyn">>, Lit("OFF"), Lit("COMP"), Lit("RMS"), Lit("LIN"), Lit("0.0"),
                   Lit("3.0"), Lit("1"), Lit("10.0"), Lit("10.0"), Lit("150"), Lit("1"), Lit("0.0"),
                   Lit("OFF"), Lit("100")>>
        hpfEnabled == IF Has(channel.eq) /\ Val(channel.eq).highPassFilter.enabled THEN "ON" ELSE "OFF"
        bands == IF Has(channel.eq) THEN Val(channel.eq).bands ELSE <<>>
        mute == IF channel.mute THEN "OFF" ELSE "ON"
        pan == IF Has(channel.pan) THEN Val(channel.pan) ELSE 0
        dcaBits == DcaBits(IF Has(channel.dcaAssignments) THEN Val(channel.dcaAssignments) ELSE <<>>, 1, 0)
    IN  << <<prefix \o <<"/config">>, Quoted(name), IntToStr(icon), IntToStr(color)>>
              \o getX32Source(channel),
           <<prefix \o <<"/preamp">>, toFixed1(gain), Lit(phantom), Lit(pad), Lit("0")>>,
           gateLine,
           dynLine,
           <<prefix \o <<"/insert">>, Lit("OFF"), Lit("OFF"), Lit("POST")>>,
           <<prefix \o <<"/eq">>, Lit(hpfEnabled)>>,
           EqBandLine(prefix, 1, "PEQ", bands, 100, 1),
           EqBandLine(prefix, 2, "PEQ", bands, 400, 2),
           EqBandLine(prefix, 3, "PEQ", bands, 1600, 2),
           EqBandLine(prefix, 4, "HShv", bands, 6300, 2),
           <<prefix \o <<"/mix">>, Lit(mute), FaderToken(channel.fader), Lit("OFF"), Lit("-oo"),
             Lit("ST"), IntToStr(pan)>>,
           <<prefix \o <<"/grp">>, <<"0x">> \o PadStart(NatToHex(dcaBits), 4, "0"), Lit("0x00")>>,
           <<prefix \o <<"/automix">>, Lit("OFF"), Lit("0")>> >>

\* a channel section that writes nothing for a slot without a channel
generateChannelSectionSkippingEmpty(num, channel) ==
    IF ~Has(channel) THEN <<>>
    ELSE ConfiguredChannelSection(<<"/ch/">> \o Pad2(num), Val(channel))

generateChannelSection(num, channel) ==
    LET prefix == <<"/ch/">> \o Pad2(num)
    IN  IF ~Has(channel) THEN DefaultChannelSection(prefix)
        ELSE ConfiguredChannelSection(prefix, Val(channel))

generateAuxInSection(num) ==
    LET prefix == <<"/auxin/">> \o Pad2(num)
    IN  << <<prefix \o <<"/config">>, Lit("\"\""), Lit("1"), Lit("GN"), Lit("AUX"), IntToStr(num)>>,
           <<prefix \o <<"/preamp">>, Lit("0.0"), Lit("OFF")>>,
           <<prefix \o <<"/eq">>, Lit("ON")>>,
           <<prefix \o <<"/eq/1">>, Lit("PEQ"), Lit("100.0"), Lit("1.000"), Lit("0.00")>>,
           <<prefix \o <<"/eq/2">>, Lit("PEQ"), Lit("400.0"), Lit("2.000"), Lit("0.00")>>,
           <<prefix \o <<"/eq/3">>, Lit("PEQ"), Lit("1600.0"), Lit("2.000"), Lit("0.00")>>,
           <<prefix \o <<"/eq/4">>, Lit("HShv"), Lit("6300.0"), Lit("2.000"), Lit("0.00")>>,
           <<prefix \o <<"/mix">>, Lit("ON"), Lit("0.0"), Lit("OFF"), Lit("-oo"), Lit("ST"), Lit("0")>>,
           <<prefix \o <<"/grp">>, Lit("0x0000"), Lit("0x00")>>,
           Blank >>

\* the dyn, insert and six-band EQ records shared by buses, matrices and mains
OutputProcessingLines(prefix) ==
    << <<prefix \o <<"/dyn">>, Lit("OFF"), Lit("COMP"), Lit("RMS"), Lit("LOG"), Lit("0.0"),
         Lit("3.0"), Lit("4"), Lit("10.0"), Lit("10.0"), Lit("150"), Lit("0"), Lit("0.0"),
         Lit("OFF"), Lit("100")>>,
       <<prefix \o <<"/insert">>, Lit("OFF"), Lit("OFF"), Lit("POST")>>,
       <<prefix \o <<"/eq">>, Lit("ON")>>,
       <<prefix \o <<"/eq/1">>, Lit("LShv"), Lit("100.0"), Lit("1.000"), Lit("0.00")>>,
       <<prefix \o <<"/eq/2">>, Lit("PEQ"), Lit("400.0"), Lit("2.000"), Lit("0.00")>>,
       <<prefix \o <<"/eq/3">>, Lit("PEQ"), Lit("1600.0"), Lit("2.000"), Lit("0.00")>>,
       <<prefix \o <<"/eq/4">>, Lit("PEQ"), Lit("4000.0"), Lit("2.000"), Lit("0.00")>>,
       <<prefix \o <<"/eq/5">>, Lit("PEQ"), Lit("8000.0"), Lit("2.000"), Lit("0.00")>>,
       <<prefix \o <<"/eq/6">>, Lit("HShv"), Lit("12000.0"), Lit("2.000"), Lit("0.00")>> >>

\* bus?.fader !== undefined ? (fader <= -90 ? '-oo' : fader.toFixed(1)) : dflt
OptFaderToken(item, dflt) ==
    IF Has(item) /\ Has(Val(item).fader) THEN FaderToken(Val(Val(item).fader)) ELSE Lit(dflt)

OptMuteToken(item) == IF Has(item) /\ Val(item).mute THEN Lit("OFF") ELSE Lit("ON")

generateBusSection(num, bus) ==
    LET prefix == <<"/bus/">> \o Pad2(num)
        name == IF Has(bus) THEN truncateName(OrElse(Val(bus).shortName, Val(bus).name), 12)
                ELSE <<"MixBus ">> \o IntToStr(num)
        color == IF Has(bus) THEN X32Color(Val(bus).color, "blue", 4) ELSE 4
        icon == IF Has(bus) /\ Val(bus).purpose = Some("iem")
                THEN NumOr(X32_ICON_MAP("Headset"), 70) ELSE NumOr(X32_ICON_MAP("Wedge"), 70)
    IN  << <<prefix \o <<"/config">>, Quoted(name), IntToStr(icon), IntToStr(color)>> >>
        \o OutputProcessingLines(prefix)
        \o << <<prefix \o <<"/mix">>, OptMuteToken(bus), OptFaderToken(bus, "-oo")>>,
              <<prefix \o <<"/grp">>, Lit("0x0000"), Lit("0x00")>> >>

generateMatrixSection(num, matrix) ==
    LET prefix == <<"/mtx/">> \o Pad2(num)
        name == IF Has(matrix) THEN truncateName(OrElse(Val(matrix).shortName, Val(matrix).name), 12)
                ELSE <<"Matrix ">> \o IntToStr(num)
        color == IF Has(matrix) THEN X32Color(Val(matrix).color, "white", 7) ELSE 7
    IN  << <<prefix \o <<"/config">>, Quoted(name), Lit("71"), IntToStr(color)>> >>
        \o OutputProcessingLines(prefix)
        \o << <<prefix \o <<"/mix">>, OptMuteToken(matrix), OptFaderToken(matrix, "-oo")>> >>

generateMainSection ==
    << << <<"/main/st", "/config">>, Lit("\"Main LR\""), Lit("71"), Lit("WH")>> >>
    \o OutputProcessingLines(Lit("/main/st"))
    \o << << <<"/main/st", "/mix">>, Lit("ON"), Lit("0.0"), Lit("0")>>,
          << <<"/main/st", "/grp">>, Lit("0x00")>> >>

generateMonoSection ==
    << << <<"/main/m", "/config">>, Lit("\"M/C\""), Lit("71"), Lit("WH")>> >>
    \o OutputProcessingLines(Lit("/main/m"))
    \o << << <<"/main/m", "/mix">>, Lit("OFF"), Lit("-oo")>>,
          << <<"/main/m", "/grp">>, Lit("0x00")>> >>

\* a DCA section that writes nothing for a slot without a DCA
generateDCASectionSkippingEmpty(num, dca) ==
    IF ~Has(dca) THEN <<>>
    ELSE << <<(<<"/dca/">> \o IntToStr(num)),
              Quoted(truncateName(OrElse(Val(dca).shortName, Val(dca).name), 12)),
              IntToStr(X32Color(Val(dca).color, "white", 7)),
              OptMuteToken(dca), OptFaderToken(dca, "0.0")>> >>

generateDCASection(num, dca) ==
    LET prefix == <<"/dca/">> \o IntToStr(num)
        name == IF Has(dca) THEN truncateName(OrElse(Val(dca).shortName, Val(dca).name), 12)
                ELSE <<"DCA ">> \o IntToStr(num)
        color == IF Has(dca) THEN X32Color(Val(dca).color, "white", 7) ELSE 7
    IN  << <<prefix, Quoted(name), IntToStr(color), OptMuteToken(dca), OptFaderToken(dca, "0.0")>> >>

\* algorithm?.includes(word) on the algorithm names of the canonical model
AlgorithmIncludes(algorithm, word) ==
    /\ Has(algorithm)
    /\ CASE word = "room" -> Val(algorithm) \in {"rev-x-room", "spx-room", "hd-room"}
         [] word = "plate" -> Val(algorithm) \in {"rev-x-plate", "spx-plate"}
         [] word = "chamber" -> Val(algorithm) \in {"chamber"}
         [] word = "tape" -> Val(algorithm) \in {"tape-delay"}
         [] word = "stereo" -> Val(algorithm) \in {"stereo-delay"}
         [] OTHER -> FALSE

DefaultReverbLines(prefix) ==
    << <<prefix \o <<"/type">>, Lit("HALL")>>,
       <<prefix \o <<"/source">>, Lit("L"), Lit("0"), Lit("R"), Lit("0")>>,
       <<prefix \o <<"/par">>, Lit("50"), Lit("60"), Lit("8"), Lit("40"), Lit("100"), Lit("72"),
         Lit("4000"), Lit("60"), Lit("7"), Lit("36"), Lit("0.5")>> >>

generateEffectSection(slot, fx) ==
    LET prefix == <<"/fx/">> \o IntToStr(slot)
    IN  IF ~Has(fx)
        THEN IF slot <= 4 THEN DefaultReverbLines(prefix)
             ELSE << <<prefix \o <<"/type">>, Lit("PEQ2")>>,
                     <<prefix \o <<"/source">>, Lit("INS")>>,
                     <<prefix \o <<"/par">>, Lit("0"), Lit("0"), Lit("0"), Lit("0"), Lit("0"), Lit("0"),
                       Lit("0"), Lit("0"), Lit("0"), Lit("0"), Lit("0")>> >>
        ELSE IF Has(Val(fx).reverb)
        THEN LET r == Val(Val(fx).reverb)
                 type == IF AlgorithmIncludes(r.algorithm, "chamber") THEN "CHMB"
                         ELSE IF AlgorithmIncludes(r.algorithm, "plate") THEN "PLATE"
                         ELSE IF AlgorithmIncludes(r.algorithm, "room") THEN "AMBI"
                         ELSE "HALL"
                 predelay == IF r.preDelay # 0 THEN r.preDelay ELSE 20
                 decay == (4 * (IF r.time # 0 THEN r.time ELSE 150) + 5) \div 10
                 size == IF r.size # 0 THEN r.size ELSE 50
                 diffusion == IF r.diffusion # 0 THEN r.diffusion ELSE 60
             IN  << <<prefix \o <<"/type">>, Lit(type)>>,
                    <<prefix \o <<"/source">>, Lit("L"), Lit("0"), Lit("R"), Lit("0")>>,
                    <<prefix \o <<"/par">>, Lit("50"), IntToStr(predelay), IntToStr(decay),
                      IntToStr(size), Lit("100"), IntToStr(diffusion), Lit("4000"), Lit("60"),
                      Lit("7"), Lit("36"), Lit("0.5")>> >>
        ELSE IF Has(Val(fx).delay)
        THEN LET d == Val(Val(fx).delay)
                 type == IF AlgorithmIncludes(d.algorithm, "stereo") THEN "ST.DL"
                         ELSE IF AlgorithmIncludes(d.algorithm, "tape") THEN "TAPE"
                         ELSE "DLY"
                 time == IF d.timeLeft # 0 THEN d.timeLeft ELSE 300
                 feedback == IF d.feedback # 0 THEN d.feedback ELSE 20
             IN  << <<prefix \o <<"/type">>, Lit(type)>>,
                    <<prefix \o <<"/source">>, Lit("L"), Lit("0"), Lit("R"), Lit("0")>>,
                    <<prefix \o <<"/par">>, Lit("50"), IntToStr(time), IntToStr(feedback), Lit("0"),
                      Lit("0"), Lit("0"), Lit("0"), Lit("0"), Lit("0"), Lit("0"), Lit("0")>> >>
        ELSE DefaultReverbLines(prefix)

GigPrepper == <<"G", "i", "g", "P", "r", "e", "p", "p", "e", "r">>

\* a generator's outcome: the text it returns, or the exception it raises
Returned(content) == [threw |-> FALSE, content |-> content]
Threw == [threw |-> TRUE, content |-> <<>>]

\* the hardware slots of the scene file
X32ChannelSlots == 32
X32AuxInSlots == 8
X32BusSlots == 16
X32MatrixSlots == 6
X32DcaSlots == 8
X32FxSlots == 8

generateSceneFile(m) ==
    IF ~Has(m.gig) THEN Threw
    ELSE
    LET scene == m.currentScene
        mixBuses == Filter(scene.buses, IsAux)
        matrices == Filter(scene.buses, IsMatrix)
        gigName == IF Len(Val(m.gig).name) > 0 THEN Val(m.gig).name ELSE GigPrepper
        chSec(i) == LET hasNum(ch) == ch.number = i
                    IN  generateChannelSection(i, Find(scene.channels, hasNum)) \o <<Blank>>
        busSec(i) == LET hasNum(b) == b.number = i
                     IN  generateBusSection(i, Find(mixBuses, hasNum)) \o <<Blank>>
        mtxSec(i) == LET hasNum(b) == b.number = i
                     IN  generateMatrixSection(i, Find(matrices, hasNum)) \o <<Blank>>
        dcaSec(i) == LET hasNum(d) == d.number = i
                     IN  generateDCASection(i, Find(scene.dcas, hasNum))
        fxSec(i) == LET hasSlot(e) == e.slot = i
                    IN  generateEffectSection(i, Find(scene.effects, hasSlot))
    IN  Returned(
          << <<Lit("#2.1# X32 Scene")>>,
             <<Lit("/scene/name"), Quoted(truncateName(gigName, 12))>>,
             <<Lit("/scene/notes"), Lit("\"\"")>>,
             Blank,
             <<Lit("/config/chlink"), Lit("0x0000")>>,
             <<Lit("/config/auxlink"), Lit("0x00")>>,
             <<Lit("/config/buslink"), Lit("0x0000")>>,
             <<Lit("/config/mtxlink"), Lit("0x00")>>,
             <<Lit("/config/mute"), Lit("0")>>,
             <<Lit("/config/linkcfg"), Lit("OFF"), Lit("OFF"), Lit("OFF"), Lit("OFF")>>,
             Blank >>
          \o Concat([i \in 1..X32ChannelSlots |-> chSec(i)])
          \o Concat([i \in 1..X32AuxInSlots |-> generateAuxInSection(i)])
          \o Concat([i \in 1..X32BusSlots |-> busSec(i)])
          \o Concat([i \in 1..X32MatrixSlots |-> mtxSec(i)])
          \o generateMainSection \o <<Blank>>
          \o generateMonoSection \o <<Blank>>
          \o Concat([i \in 1..X32DcaSlots |-> dcaSec(i)])
          \o <<Blank>>
          \o Concat([i \in 1..X32FxSlots |-> fxSec(i)]))

(***************************************************************************)
(* X32 / M32 documentation and export                                      *)
(***************************************************************************)
AlnumChars ==
    {"a", "b", "c", "d", "e", "f", "g", "h", "i", "j", "k", "l", "m", "n", "o", "p", "q",
     "r", "s", "t", "u", "v", "w", "x", "y", "z",
     "A", "B", "C", "D", "E", "F", "G", "H", "I", "J", "K", "L", "M", "N", "O", "P", "Q",
     "R", "S", "T", "U", "V", "W", "X", "Y", "Z",
     "0", "1", "2", "3", "4", "5", "6", "7", "8", "9"}

\* name.replace(/[^a-zA-Z0-9]/g, '_')
SanitizeFileName(name) == [i \in 1..Len(name) |-> IF name[i] \in AlnumChars THEN name[i] ELSE "_"]

IsPhantomOn(ch) == Has(ch.input) /\ Val(ch.input).phantomPower = "on"

\* the data-dependent lines of the X32 README, between its fixed paragraphs
X32_generateReadmeMD(m) ==
    IF ~Has(m.gig) THEN Threw
    ELSE Returned(
        << <<Lit("# X32/M32 Scene Import Guide")>>,
           <<Lit("## "), Val(m.gig).name>>,
           <<Lit("### Quick Start")>>,
           <<Lit("### Scene Contents")>>,
           <<Lit("- **Channels**: "), IntToStr(Len(m.currentScene.channels)), Lit(" configured")>>,
           <<Lit("- **Mix Buses**: "), IntToStr(Len(Filter(m.currentScene.buses, IsAux))), Lit(" configured")>>,
           <<Lit("- **DCAs**: "), IntToStr(Len(m.currentScene.dcas)), Lit(" configured")>>,
           <<Lit("- **Effects**: "), IntToStr(Len(m.currentScene.effects)), Lit(" configured")>>,
           <<Lit("### Post-Load Checklist")>>,
           <<Lit("### Tips")>>,
           <<Lit("*Generated by Gig-Prepper AI Sound Engineer*")>> >>)

\* gain >= 0 ? `+${gain}` : `${gain}`
GainStr(gain) == IF gain >= 0 THEN <<"+">> \o NumToStr(gain) ELSE NumToStr(gain)

\* sourceDescription || category || '-'
SourceOrCategory(ch) ==
    IF Has(ch.sourceDescription) THEN Lit(Val(ch.sourceDescription))
    ELSE IF Has(ch.category) THEN Lit(Val(ch.category))
    ELSE Lit("-")

NotesOrDash(ch) == IF Has(ch.notes) THEN Lit(Val(ch.notes)) ELSE Lit("-")

X32_generateGainSheetMD(m) ==
    IF ~Has(m.gig) THEN Threw
    ELSE LET row(ch) ==
                 << <<Lit("|"), IntToStr(ch.number), Lit("|"), ch.name, Lit("|"),
                      GainStr(IF Has(ch.input) THEN Val(ch.input).gain ELSE 0) \o <<"dB">>, Lit("|"),
                      Lit(IF IsPhantomOn(ch) THEN "(check)" ELSE "-"), Lit("|"),
                      SourceOrCategory(ch), Lit("|"), NotesOrDash(ch), Lit("|")>> >>
         IN  Returned(
               << <<Lit("# Gain Sheet - X32/M32")>>,
                  <<Lit("## "), Val(m.gig).name>>,
                  <<Lit("| CH | Name | Gain | +48V | Source | Notes |")>> >>
               \o ForEach(m.currentScene.channels, row, 1)
               \o << <<Lit("## Gain Guidelines")>> >>)

\* a file list that is emptied when a generator raises
NoFilesOnThrow(gens, k) ==
    IF \E i \in 1..Len(gens) : gens[i].gen.threw THEN <<>>
    ELSE [i \in 1..Len(gens) |-> [filename |-> gens[i].filename,
                                  extension |-> gens[i].extension,
                                  content |-> gens[i].gen.content]]

\* the files pushed before the first generator that raises
RECURSIVE FilesBeforeThrow(_, _)
FilesBeforeThrow(gens, k) ==
    IF k > Len(gens) \/ gens[k].gen.threw THEN <<>>
    ELSE << [filename |-> gens[k].filename,
             extension |-> gens[k].extension,
             content |-> gens[k].gen.content] >> \o FilesBeforeThrow(gens, k + 1)

AnyThrew(gens) == \E k \in 1..Len(gens) : gens[k].gen.threw

X32Instructions ==
    << "1. Copy .scn file to USB drive (FAT32)", "2. Insert USB in console",
       "3. Press UTILITY -> USB -> LOAD -> SCENE", "4. Select file and confirm LOAD",
       "5. Verify settings and run line check" >>

\* the files X32Adapter.export pushes, in order, each with its generator's outcome
X32Generators(m) ==
    LET sceneName == IF ~Has(m.gig) THEN <<>>
                     ELSE SanitizeFileName(IF Len(Val(m.gig).name) > 0 THEN Val(m.gig).name
                                           ELSE GigPrepper)
    IN  << [filename |-> sceneName \o <<".scn">>, extension |-> ".scn",
            gen |-> generateSceneFile(m)],
           [filename |-> <<"README.md">>, extension |-> ".md",
            gen |-> X32_generateReadmeMD(m)],
           [filename |-> <<"GainSheet.md">>, extension |-> ".md",
            gen |-> X32_generateGainSheetMD(m)] >>

\* X32Adapter.export: try { push three files; add warnings } catch { push an error }
X32Adapter_export(m) ==
    LET gens == X32Generators(m)
        caught == AnyThrew(gens)
        nCh == Len(m.currentScene.channels)
        nPhantom == Len(Filter(m.currentScene.channels, IsPhantomOn))
        warnings ==
            (IF nCh > 32
             THEN << <<"Only first 32 channels will be exported (you have ">> \o IntToStr(nCh) \o <<")">> >>
             ELSE <<>>)
            \o (IF nPhantom > 0
                THEN << IntToStr(nPhantom) \o <<" channel(s) require +48V phantom power">> >>
                ELSE <<>>)
        errors == IF caught THEN << <<"Export failed: ", "TypeError">> >> ELSE <<>>
    IN  [threw |-> FALSE,
         success |-> Len(errors) = 0,
         files |-> FilesBeforeThrow(gens, 1),
         warnings |-> IF caught THEN <<>> ELSE warnings,
         errors |-> errors,
         instructions |-> X32Instructions]

(***************************************************************************)
(* Yamaha CL/QL/TF tables (CSV)                                            *)
(***************************************************************************)
\* YAMAHA_COLOR_NAMES[name], absent for a name that is no key of the table
YAMAHA_COLOR_NAMES(name) ==
    CASE name \in {"off", "black"} -> Some("Black")
      [] name = "red" -> Some("Red")
      [] name \in {"green", "lime"} -> Some("Green")
      [] name = "yellow" -> Some("Yellow")
      [] name = "blue" -> Some("Blue")
      [] name \in {"magenta", "pink", "purple"} -> Some("Magenta")
      [] name = "cyan" -> Some("Cyan")
      [] name = "white" -> Some("White")
      [] name = "orange" -> Some("Orange")
      [] OTHER -> None

getColorName(colorInput) ==
    LET entry == YAMAHA_COLOR_NAMES(toLowerCase(colorInput))
    IN  IF Has(entry) THEN Val(entry) ELSE "White"

\* the entries of YAMAHA_ICONS in the order Object.entries lists them
YAMAHA_ICONS ==
    << [name |-> "vocals", key |-> <<"v", "o", "c", "a", "l", "s">>, icon |-> "Female"],
       [name |-> "vocal", key |-> <<"v", "o", "c", "a", "l">>, icon |-> "Female"],
       [name |-> "female", key |-> <<"f", "e", "m", "a", "l", "e">>, icon |-> "Female"],
       [name |-> "male", key |-> <<"m", "a", "l", "e">>, icon |-> "Male"],
       [name |-> "strings", key |-> <<"s", "t", "r", "i", "n", "g", "s">>, icon |-> "Strings"],
       [name |-> "violin", key |-> <<"v", "i", "o", "l", "i", "n">>, icon |-> "Strings"],
       [name |-> "fiol", key |-> <<"f", "i", "o", "l">>, icon |-> "Strings"],
       [name |-> "guitar", key |-> <<"g", "u", "i", "t", "a", "r">>, icon |-> "A.Guitar"],
       [name |-> "acoustic-guitar", key |-> <<"a", "c", "o", "u", "s", "t", "i", "c", "-", "g", "u", "i", "t", "a", "r">>, icon |-> "A.Guitar"],
       [name |-> "electric-guitar", key |-> <<"e", "l", "e", "c", "t", "r", "i", "c", "-", "g", "u", "i", "t", "a", "r">>, icon |-> "E.Guitar"],
       [name |-> "bass", key |-> <<"b", "a", "s", "s">>, icon |-> "E.Bass"],
       [name |-> "keys", key |-> <<"k", "e", "y", "s">>, icon |-> "Keyboard"],
       [name |-> "keyboard", key |-> <<"k", "e", "y", "b", "o", "a", "r", "d">>, icon |-> "Keyboard"],
       [name |-> "piano", key |-> <<"p", "i", "a", "n", "o">>, icon |-> "Piano"],
       [name |-> "drums", key |-> <<"d", "r", "u", "m", "s">>, icon |-> "Drums"],
       [name |-> "kick", key |-> <<"k", "i", "c", "k">>, icon |-> "Kick"],
       [name |-> "snare", key |-> <<"s", "n", "a", "r", "e">>, icon |-> "Snare"],
       [name |-> "hihat", key |-> <<"h", "i", "h", "a", "t">>, icon |-> "Hi-Hat"],
       [name |-> "percussion", key |-> <<"p", "e", "r", "c", "u", "s", "s", "i", "o", "n">>, icon |-> "Perc."],
       [name |-> "perc", key |-> <<"p", "e", "r", "c">>, icon |-> "Perc."],
       [name |-> "condenser", key |-> <<"c", "o", "n", "d", "e", "n", "s", "e", "r">>, icon |-> "Condenser"],
       [name |-> "mic", key |-> <<"m", "i", "c">>, icon |-> "Dynamic"],
       [name |-> "di", key |-> <<"d", "i">>, icon |-> "DI"],
       [name |-> "podium", key |-> <<"p", "o", "d", "i", "u", "m">>, icon |-> "Podium"],
       [name |-> "talk", key |-> <<"t", "a", "l", "k">>, icon |-> "Podium"],
       [name |-> "tal", key |-> <<"t", "a", "l">>, icon |-> "Podium"],
       [name |-> "audience", key |-> <<"a", "u", "d", "i", "e", "n", "c", "e">>, icon |-> "Audience"],
       [name |-> "ambient", key |-> <<"a", "m", "b", "i", "e", "n", "t">>, icon |-> "Condenser"],
       [name |-> "media", key |-> <<"m", "e", "d", "i", "a">>, icon |-> "Media1"],
       [name |-> "spotify", key |-> <<"s", "p", "o", "t", "i", "f", "y">>, icon |-> "Media1"],
       [name |-> "playback", key |-> <<"p", "l", "a", "y", "b", "a", "c", "k">>, icon |-> "Media1"],
       [name |-> "wedge", key |-> <<"w", "e", "d", "g", "e">>, icon |-> "Wedge"],
       [name |-> "monitor", key |-> <<"m", "o", "n", "i", "t", "o", "r">>, icon |-> "Wedge"],
       [name |-> "speaker", key |-> <<"s", "p", "e", "a", "k", "e", "r">>, icon |-> "Speaker"],
       [name |-> "pa", key |-> <<"p", "a">>, icon |-> "Speaker"],
       [name |-> "fader", key |-> <<"f", "a", "d", "e", "r">>, icon |-> "Fader"],
       [name |-> "blank", key |-> <<"b", "l", "a", "n", "k">>, icon |-> "Blank"],
       [name |-> "default", key |-> <<"d", "e", "f", "a", "u", "l", "t">>, icon |-> "Blank"] >>

UpperChars ==
    <<"A", "B", "C", "D", "E", "F", "G", "H", "I", "J", "K", "L", "M", "N", "O", "P", "Q",
      "R", "S", "T", "U", "V", "W", "X", "Y", "Z">>
LowerChars ==
    <<"a", "b", "c", "d", "e", "f", "g", "h", "i", "j", "k", "l", "m", "n", "o", "p", "q",
      "r", "s", "t", "u", "v", "w", "x", "y", "z">>

\* String.prototype.toLowerCase on a string of characters
LowerStr(str) ==
    [i \in 1..Len(str) |->
        IF \E k \in 1..26 : UpperChars[k] = str[i]
        THEN LowerChars[CHOOSE k \in 1..26 : UpperChars[k] = str[i]]
        ELSE str[i]]

\* String.prototype.includes
Includes(str, key) ==
    \E b \in 1..(Len(str) - Len(key) + 1) : SubSeq(str, b, b + Len(key) - 1) = key

\* getIconName(category, name): the category's own entry, else the first entry whose
\* key occurs in the lower-cased name, else 'Blank'
getIconName(category, name) ==
    LET byCategory == IF Has(category)
                      THEN {i \in 1..Len(YAMAHA_ICONS) : YAMAHA_ICONS[i].name = toLowerCase(Val(category))}
                      ELSE {}
        byName == {i \in 1..Len(YAMAHA_ICONS) : Includes(LowerStr(name), YAMAHA_ICONS[i].key)}
    IN  IF byCategory # {} THEN YAMAHA_ICONS[CHOOSE i \in byCategory : TRUE].icon
        ELSE IF byName # {} THEN YAMAHA_ICONS[CHOOSE i \in byName : \A j \in byName : i <= j].icon
        ELSE "Blank"

\* `_${num.toString().padStart(2, '0')}`
formatChannelNumber(num) == <<"_">> \o Pad2(num)

getModelString(model) ==
    CASE model = "cl1" -> "CL1" [] model = "cl3" -> "CL3" [] model = "cl5" -> "CL5"
      [] model = "ql1" -> "QL1" [] model = "ql5" -> "QL5"
      [] model = "tf1" -> "TF1" [] model = "tf3" -> "TF3" [] model = "tf5" -> "TF5"
      [] OTHER -> "QL1"

generateHeader(model) == << <<Lit("[Information]")>>, <<Lit(model)>>, <<Lit("V4.1")>> >>

\* the header of a table followed by its section marker and its column line
TableHead(m, section, columns) ==
    generateHeader(getModelString(m.console.model)) \o << <<Lit(section)>>, <<Lit(columns)>> >>

\* one row of a name table
NameRow(number, name, color, icon) ==
    << <<formatChannelNumber(number), Quoted(name), Quoted(Lit(color)), Quoted(Lit(icon))>> >>

\* a channel-name table that writes the display name at its full length
generateInNameCSVUncut(m) ==
    LET named == Filter(m.currentScene.channels, LAMBDA ch : ch.type \in {"mono", "stereo"})
        row(ch) == NameRow(ch.number, OrElse(ch.shortName, ch.name),
                           getColorName(Val(ch.color).name),
                           getIconName(ch.category, ch.name))
    IN  IF \E i \in 1..Len(named) : ~Has(named[i].color) THEN Threw
        ELSE Returned(TableHead(m, "[InName]", "IN,NAME,COLOR,ICON,")
                      \o ForEach(named, row, 1))

generateInNameCSV(m) ==
    LET named == Filter(m.currentScene.channels, LAMBDA ch : ch.type \in {"mono", "stereo"})
        row(ch) == NameRow(ch.number, truncateName(OrElse(ch.shortName, ch.name), 8),
                           getColorName(Val(ch.color).name),
                           getIconName(ch.category, ch.name))
    IN  IF \E i \in 1..Len(named) : ~Has(named[i].color) THEN Threw
        ELSE Returned(TableHead(m, "[InName]", "IN,NAME,COLOR,ICON,")
                      \o ForEach(named, row, 1))

generateInPatchCSV(m) ==
    LET channels == m.currentScene.channels
        row(ch) ==
            LET source == Val(ch.input).source
                port == IntToStr(source.port)
            IN  CASE source.type \in {"dante", "tio", "rio"} ->
                       << <<Lit("CH"), IntToStr(ch.number), Lit("DANTE"), port,
                            Quoted(<<"# Dante In ">> \o port)>> >>
                  [] source.type = "local" ->
                       << <<Lit("CH"), IntToStr(ch.number), Lit("INPUT"), port,
                            Quoted(<<"# Local In ">> \o port)>> >>
                  [] source.type = "aes" ->
                       << <<Lit("CH"), IntToStr(ch.number), Lit("AES"), port,
                            Quoted(<<"# AES In ">> \o port)>> >>
                  [] OTHER -> <<>>
    IN  IF \E i \in 1..Len(channels) : ~Has(channels[i].input) THEN Threw
        ELSE Returned(TableHead(m, "[InPatch]", "IN PATCH,SOURCE,COMMENT")
                      \o ForEach(channels, row, 1))

\* bus.type.toUpperCase()
UpperBusType(type) ==
    CASE type = "aux" -> "AUX" [] type = "group" -> "GROUP"
      [] type = "matrix" -> "MATRIX" [] OTHER -> "MAIN"

generateOutPatchCSV(m) ==
    LET row(bus) ==
            IF Has(bus.output) /\ Val(bus.output).type = "local"
            THEN << <<Lit("OUTPUT"), IntToStr(Val(bus.output).port), Lit(UpperBusType(bus.type)),
                      IntToStr(bus.number), Quoted(<<"# ">> \o bus.name)>> >>
            ELSE <<>>
    IN  Returned(TableHead(m, "[OutPatch]", "OUT PATCH,SOURCE,COMMENT")
                 \o ForEach(m.currentScene.buses, row, 1))

generatePortRackPatchCSV(m) ==
    LET row(bus) ==
            IF Has(bus.output) /\ Val(bus.output).type \in {"dante", "tio"}
            THEN << <<Lit("DANTE"), IntToStr(Val(bus.output).port),
                      Lit(IF bus.type = "matrix" THEN "MATRIX" ELSE "MIX"),
                      IntToStr(bus.number), Quoted(<<"# ">> \o bus.name)>> >>
            ELSE <<>>
    IN  Returned(TableHead(m, "[PortRackPatch]",
                                "PORT RACK PATCH,SOURCE,COMMENT")
                 \o ForEach(m.currentScene.buses, row, 1))

generateMixNameCSV(m) ==
    LET mixBuses == Filter(m.currentScene.buses, IsAux)
        row(bus) == NameRow(bus.number, truncateName(OrElse(bus.shortName, bus.name), 8),
                            getColorName(Val(bus.color).name),
                            IF bus.purpose \in {Some("monitor"), Some("iem")} THEN "Wedge" ELSE "Fader")
    IN  IF \E i \in 1..Len(mixBuses) : ~Has(mixBuses[i].color) THEN Threw
        ELSE Returned(TableHead(m, "[MixName]", "MIX,NAME,COLOR,ICON,")
                      \o ForEach(mixBuses, row, 1))

generateMtxNameCSV(m) ==
    LET matrixBuses == Filter(m.currentScene.buses, IsMatrix)
        row(bus) == NameRow(bus.number, truncateName(OrElse(bus.shortName, bus.name), 8),
                            getColorName(Val(bus.color).name), "Speaker")
    IN  IF \E i \in 1..Len(matrixBuses) : ~Has(matrixBuses[i].color) THEN Threw
        ELSE Returned(TableHead(m, "[MtxName]", "MATRIX,NAME,COLOR,ICON,")
                      \o ForEach(matrixBuses, row, 1))

generateDCANameCSV(m) ==
    LET dcas == m.currentScene.dcas
        row(dca) == NameRow(dca.number, truncateName(OrElse(dca.shortName, dca.name), 8),
                            getColorName(Val(dca.color).name), "Fader")
    IN  IF \E i \in 1..Len(dcas) : ~Has(dcas[i].color) THEN Threw
        ELSE Returned(TableHead(m, "[DCAName]", "DCA,NAME,COLOR,ICON,")
                      \o ForEach(dcas, row, 1))

generateStNameCSV(m) ==
    Returned(TableHead(m, "[StName]", "ST,NAME,COLOR,ICON,")
             \o << <<Lit("_01"), Lit("\"ST IN 1\""), Lit("\"Black\""), Lit("\"Blank\"")>> >>)

generateStMonoNameCSV(m) ==
    Returned(TableHead(m, "[StMonoName]", "STEREO/MONO,NAME,COLOR,ICON,")
             \o << <<Lit("_01"), Lit("\"Main L\""), Lit("\"Yellow\""), Lit("\"Fader\"")>>,
                   <<Lit("_02"), Lit("\"Main R\""), Lit("\"Yellow\""), Lit("\"Fader\"")>>,
                   <<Lit("_03"), Lit("\"Mono\""), Lit("\"Black\""), Lit("\"Fader\"")>> >>)

(***************************************************************************)
(* Yamaha documentation (Markdown).  A line of Markdown is one token.      *)
(***************************************************************************)
Md(parts) == << Concat(parts) >>

\* literal lines; "" is an empty line
Static(ss) == [i \in 1..Len(ss) |-> IF ss[i] = "" THEN Blank ELSE <<Lit(ss[i])>>]

\* template-literal rendering of an optional string
OptStr(o) == IF Has(o) THEN Val(o) ELSE Lit("undefined")

\* GENRE_PRESETS[genre] for the genres that sessions carry; times in hundredths of a second
GENRE_PRESETS(genre) ==
    CASE genre = "folk" ->
           Some([genre |-> "FOLK",
                 mixPhilosophy |-> "Organiskt, varmt, dynamiskt. Minimal processing, naturlig klang.",
                 defaultReverb |-> [algorithm |-> "rev-x-hall", time |-> 180, preDelay |-> 25],
                 defaultDelay |-> [algorithm |-> "tape-delay", timeLeft |-> 280, feedback |-> 20],
                 vocalProcessing |-> [hpf |-> 100]])
      [] genre = "rock" ->
           Some([genre |-> "ROCK",
                 mixPhilosophy |-> "Kraftfullt, energiskt, punchy. Kontrollerad dynamik.",
                 defaultReverb |-> [algorithm |-> "spx-plate", time |-> 120, preDelay |-> 10],
                 defaultDelay |-> [algorithm |-> "stereo-delay", timeLeft |-> 320, feedback |-> 25],
                 vocalProcessing |-> [hpf |-> 120]])
      [] genre = "podcast" ->
           Some([genre |-> "PODCAST",
                 mixPhilosophy |-> "Kristallklart tal, ingen rumskansla, tight.",
                 defaultReverb |-> [algorithm |-> "ambience", time |-> 30, preDelay |-> 0],
                 defaultDelay |-> [algorithm |-> "mono-delay", timeLeft |-> 0, feedback |-> 0],
                 vocalProcessing |-> [hpf |-> 80]])
      [] genre = "other" ->
           Some([genre |-> "OTHER",
                 mixPhilosophy |-> "Anpassa efter situation.",
                 defaultReverb |-> [algorithm |-> "rev-x-hall", time |-> 150, preDelay |-> 20],
                 defaultDelay |-> [algorithm |-> "stereo-delay", timeLeft |-> 300, feedback |-> 20],
                 vocalProcessing |-> [hpf |-> 100]])
      [] OTHER -> None

YAMAHA_REVERB_MAP(algorithm) ==
    CASE algorithm = "rev-x-hall" -> Some("REV-X Hall")
      [] algorithm = "rev-x-room" -> Some("REV-X Room")
      [] algorithm = "rev-x-plate" -> Some("REV-X Plate")
      [] algorithm = "spx-hall" -> Some("SPX Hall")
      [] algorithm = "spx-room" -> Some("SPX Room")
      [] algorithm = "spx-stage" -> Some("SPX Stage")
      [] algorithm = "spx-plate" -> Some("SPX Plate")
      [] algorithm = "hd-hall" -> Some("HD Hall")
      [] algorithm = "hd-room" -> Some("HD Room")
      [] algorithm = "ambience" -> Some("Ambience")
      [] algorithm = "early-ref" -> Some("Early Ref.")
      [] algorithm = "gate-reverb" -> Some("Gate Reverb")
      [] OTHER -> None

YAMAHA_DELAY_MAP(algorithm) ==
    CASE algorithm = "mono-delay" -> Some("Mono Delay")
      [] algorithm = "stereo-delay" -> Some("Stereo Delay")
      [] algorithm = "ping-pong" -> Some("Ping Pong Delay")
      [] algorithm = "tape-delay" -> Some("Tape Echo")
      [] algorithm = "analog-delay" -> Some("Analog Delay")
      [] algorithm = "modulated-delay" -> Some("Mod. Delay")
      [] OTHER -> None

\* every channel carries an input block (the generators read channel.input.* of each)
AllHaveInput(m) == \A i \in 1..Len(m.currentScene.channels) : Has(m.currentScene.channels[i].input)

\* a phantom-power document that lists no channel
generatePhantomPowerMDWithoutRows(m) ==
    IF ~AllHaveInput(m) THEN Threw
    ELSE Returned(Static(<<"# Fantommatning (+48V)", "", "| CH | Namn | Kalla | Mikrofon |",
                           "|:--:|------|-------|----------|", "", "## Aktivering">>))

generatePhantomPowerMD(m) ==
    LET phantomChannels == Filter(m.currentScene.channels, IsPhantomOn)
        row(ch) ==
            LET source == Val(ch.input).source
                sourceStr == (IF source.type \in {"dante", "tio"} THEN <<"Dante ">> ELSE <<"Local ">>)
                             \o IntToStr(source.port)
                mic == IF Has(ch.sourceDescription) THEN Lit(Val(ch.sourceDescription))
                       ELSE Lit("Kondensator")
            IN  << Md(<< <<"| ">>, IntToStr(ch.number), <<" | ">>, ch.name, <<" | ">>, sourceStr,
                         <<" | ">>, mic, <<" |">> >>) >>
    IN  IF ~AllHaveInput(m) THEN Threw
        ELSE IF Len(phantomChannels) = 0
        THEN Returned(Static(<<"# Fantommatning (+48V)", "", "*Inga kanaler kraver fantommatning.*">>))
        ELSE Returned(Static(<<"# Fantommatning (+48V)", "", "| CH | Namn | Kalla | Mikrofon |",
                               "|:--:|------|-------|----------|">>)
                      \o ForEach(phantomChannels, row, 1)
                      \o Static(<<"", "## Aktivering", "", "### Tio1608-D Stagebox",
                                  "1. QL1 -> **Setup** -> **I/O Device**", "2. Valj Tio1608 i listan",
                                  "3. Tryck **+48V** for aktuella ingangar", "",
                                  "### Lokala ingangar", "1. Valj kanal -> **Selected Channel**",
                                  "2. **HA** (Head Amp) -> **+48V ON**">>))

Yamaha_generateGainSheetMD(m) ==
    LET row(ch) ==
            << Md(<< <<"| ">>, IntToStr(ch.number), <<" | ">>, ch.name, <<" | ">>,
                     GainStr(Val(ch.input).gain), <<"dB | ">>,
                     IF Val(ch.input).pad THEN Lit("20dB") ELSE Lit("-"), <<" | ">>,
                     SourceOrCategory(ch), <<" | ">>, NotesOrDash(ch), <<" |">> >>) >>
    IN  IF ~AllHaveInput(m) THEN Threw
        ELSE Returned(Static(<<"# Gain Sheet", "",
                               "> Startpunkter for gain. Justera efter faktisk niva vid line check.", "",
                               "| CH | Namn | Gain | Pad | Kalla | Anteckning |",
                               "|:--:|------|:----:|:---:|-------|------------|">>)
                      \o ForEach(m.currentScene.channels, row, 1)
                      \o Static(<<"", "## Gain Tips", "",
                                  "- **Kondensator sang**: Borja +15 till +25 dB",
                                  "- **Dynamisk sang**: Borja +30 till +45 dB",
                                  "- **DI (gitarr/bas)**: Borja 0 till +10 dB",
                                  "- **Trummor**: Kick +20, Snare +25, OH +15",
                                  "- **Mal**: Peak ca -18 till -12 dBFS">>))

\* the gig carries an artist (the guides read mix.gig.artist.genre)
HasArtist(m) == Has(m.gig) /\ Has(Val(m.gig).artist)

\* the "Mix-filosofi" heading of the first genre's preset, if it has one
PhilosophyLines(m) ==
    LET genres == Val(Val(m.gig).artist).genre
        preset == IF Len(genres) > 0 THEN GENRE_PRESETS(genres[1]) ELSE None
    IN  IF Has(preset)
        THEN << Md(<< <<"## Mix-filosofi: ">>, Lit(Val(preset).genre) >>), Blank,
                Md(<< <<"> ">>, Lit(Val(preset).mixPhilosophy) >>), Blank >>
        ELSE <<>>

generateEQGuideMD(m) ==
    LET channels == m.currentScene.channels
        band(eq, k) ==
            IF k > Len(eq.bands) \/ ~eq.bands[k].enabled THEN Lit("-")
            ELSE (IF eq.bands[k].gain >= 0 THEN <<"+">> ELSE <<>>) \o NumToStr(eq.bands[k].gain)
                 \o <<"dB @ ">> \o IntToStr(eq.bands[k].frequency) \o <<"Hz">>
        row(ch) ==
            LET eq == Val(ch.eq)
                hpf == IF eq.highPassFilter.enabled
                       THEN IntToStr(eq.highPassFilter.frequency) \o <<"Hz @ ">>
                            \o IntToStr(eq.highPassFilter.slope) \o <<"dB/oct">>
                       ELSE Lit("OFF")
            IN  << Md(<< <<"| ">>, IntToStr(ch.number), <<" | ">>, ch.name, <<" | ">>, hpf, <<" | ">>,
                         band(eq, 1), <<" | ">>, band(eq, 2), <<" | ">>, band(eq, 3), <<" | ">>,
                         band(eq, 4), <<" |">> >>) >>
    IN  IF ~HasArtist(m) \/ \E i \in 1..Len(channels) : ~Has(channels[i].eq) THEN Threw
        ELSE Returned(Static(<<"# EQ Guide", "">>)
                      \o PhilosophyLines(m)
                      \o Static(<<"## Kanal-EQ", "",
                                  "| CH | Namn | HPF | Band 1 | Band 2 | Band 3 | Band 4 |",
                                  "|:--:|------|-----|--------|--------|--------|--------|">>)
                      \o ForEach(channels, row, 1)
                      \o Static(<<"", "## Rekommenderade HPF-frekvenser", "",
                                  "| Kalla | HPF | Anledning |", "|-------|-----|----------|",
                                  "| Sang | 80-120 Hz | Ta bort handling noise, plosiver |",
                                  "| Akustisk gitarr | 80-100 Hz | Rensa upp botten |",
                                  "| Fiol/Viola | 150-200 Hz | Inget LF-innehall |",
                                  "| Kick | OFF eller 30 Hz | Behall sub |",
                                  "| Snare | 80-100 Hz | Ta bort kick-bleed |",
                                  "| Tal/Podium | 100-150 Hz | Tydlighet |">>))

generateDynamicsGuideMD(m) ==
    LET channels == m.currentScene.channels
        genres == Val(Val(m.gig).artist).genre
        useGate == \E i \in 1..Len(genres) : genres[i] \in {"rock", "metal", "pop"}
        gatedChannels == Filter(channels, LAMBDA ch : Val(ch.dynamics).gate.enabled)
        compChannels == Filter(channels, LAMBDA ch : Val(ch.dynamics).compressor.enabled)
        gateRow(ch) ==
            LET g == Val(ch.dynamics).gate
            IN  << Md(<< <<"| ">>, IntToStr(ch.number), <<" | ">>, ch.name, <<" | ">>,
                         NumToStr(g.threshold), <<"dB | ">>, NumToStr(g.range), <<"dB | ">>,
                         IntToStr(g.attack), <<"ms | ">>, IntToStr(g.hold), <<"ms | ">>,
                         IntToStr(g.release), <<"ms |">> >>) >>
        compRow(ch) ==
            LET c == Val(ch.dynamics).compressor
                ratio == IF c.ratio >= 2000 THEN Lit("inf:1") ELSE NumToStr(c.ratio) \o <<":1">>
                makeup == IF c.autoMakeup THEN Lit("Auto") ELSE NumToStr(c.makeupGain) \o <<"dB">>
            IN  << Md(<< <<"| ">>, IntToStr(ch.number), <<" | ">>, ch.name, <<" | ">>,
                         NumToStr(c.threshold), <<"dB | ">>, ratio, <<" | ">>,
                         NumToStr(c.attack), <<"ms | ">>, IntToStr(c.release), <<"ms | ">>,
                         Lit(c.knee), <<" | ">>, makeup, <<" |">> >>) >>
    IN  IF ~HasArtist(m) \/ \E i \in 1..Len(channels) : ~Has(channels[i].dynamics) THEN Threw
        ELSE Returned(
            Static(<<"# Dynamics Guide", "", "## Gate-installningar", "">>)
            \o (IF ~useGate
                THEN Static(<<"> **Genre-rekommendation**: Minimal gate-anvandning for denna genre.", "">>)
                ELSE <<>>)
            \o (IF Len(gatedChannels) > 0
                THEN Static(<<"| CH | Namn | Threshold | Range | Attack | Hold | Release |",
                              "|:--:|------|:---------:|:-----:|:------:|:----:|:-------:|">>)
                     \o ForEach(gatedChannels, gateRow, 1)
                ELSE Static(<<"*Ingen gate konfigurerad.*">>))
            \o Static(<<"", "## Kompressor-installningar", "">>)
            \o (IF Len(compChannels) > 0
                THEN Static(<<"| CH | Namn | Threshold | Ratio | Attack | Release | Knee | Makeup |",
                              "|:--:|------|:---------:|:-----:|:------:|:-------:|:----:|:------:|">>)
                     \o ForEach(compChannels, compRow, 1)
                ELSE Static(<<"*Ingen kompression konfigurerad.*">>))
            \o Static(<<"", "## Rekommenderade startpunkter", "", "### Sang",
                        "- **Ratio**: 3:1 till 4:1",
                        "- **Threshold**: -20 till -15 dB (justera sa 3-6 dB GR)",
                        "- **Attack**: 10-25 ms (behall transienter)",
                        "- **Release**: 100-200 ms (folj frasen)", "- **Knee**: Soft", "",
                        "### Akustisk gitarr", "- **Ratio**: 2:1 till 3:1", "- **Threshold**: -18 dB",
                        "- **Attack**: 20-30 ms", "- **Release**: 150 ms">>))

\* the recommendations generateEffectsRackMD makes from a genre preset
GenreEffectLines(preset) ==
    LET r == preset.defaultReverb
        d == preset.defaultDelay
        rType == YAMAHA_REVERB_MAP(r.algorithm)
        dType == YAMAHA_DELAY_MAP(d.algorithm)
    IN  << <<Lit("## Rekommenderade effekter baserat pa genre")>>, Blank,
           <<Lit("### Rack 1: Huvudreverb")>>,
           Md(<< <<"- **Typ**: ">>, Lit(IF Has(rType) THEN Val(rType) ELSE "REV-X Hall") >>),
           Md(<< <<"- **Time**: ">>, NumToStr(IF r.time # 0 THEN r.time ELSE 150), <<"s">> >>),
           Md(<< <<"- **Pre-delay**: ">>, IntToStr(IF r.preDelay # 0 THEN r.preDelay ELSE 20), <<"ms">> >>),
           <<Lit("- **Anvandning**: Sang, akustiska instrument")>>, Blank,
           <<Lit("### Rack 2: Delay")>>,
           Md(<< <<"- **Typ**: ">>, Lit(IF Has(dType) THEN Val(dType) ELSE "Stereo Delay") >>),
           Md(<< <<"- **Time**: ">>, IntToStr(IF d.timeLeft # 0 THEN d.timeLeft ELSE 300), <<"ms">> >>),
           Md(<< <<"- **Feedback**: ">>, IntToStr(IF d.feedback # 0 THEN d.feedback ELSE 20), <<"%">> >>),
           <<Lit("- **Anvandning**: Subtilt pa sang")>>, Blank >>

\* the lines generateEffectsRackMD writes for one configured processor
RackLines(fx) ==
    LET reverbLines ==
            IF ~Has(fx.reverb) THEN <<>>
            ELSE LET r == Val(fx.reverb)
                     known == IF Has(r.algorithm) THEN YAMAHA_REVERB_MAP(Val(r.algorithm)) ELSE None
                 IN  << Md(<< <<"- **Typ**: ">>,
                              IF Has(known) THEN Lit(Val(known)) ELSE OptStr(r.algorithm) >>),
                        Md(<< <<"- **Time**: ">>, NumToStr(r.time), <<"s">> >>),
                        Md(<< <<"- **Pre-delay**: ">>, IntToStr(r.preDelay), <<"ms">> >>),
                        Md(<< <<"- **Size**: ">>, IntToStr(r.size), <<"%">> >>),
                        Md(<< <<"- **Diffusion**: ">>, IntToStr(r.diffusion), <<"%">> >>),
                        Md(<< <<"- **HPF**: ">>, IntToStr(r.hpf), <<"Hz">> >>),
                        Md(<< <<"- **LPF**: ">>, IntToStr(r.lpf), <<"Hz">> >>) >>
        delayLines ==
            IF ~Has(fx.delay) THEN <<>>
            ELSE LET d == Val(fx.delay)
                     known == IF Has(d.algorithm) THEN YAMAHA_DELAY_MAP(Val(d.algorithm)) ELSE None
                 IN  << Md(<< <<"- **Typ**: ">>,
                              IF Has(known) THEN Lit(Val(known)) ELSE OptStr(d.algorithm) >>),
                        Md(<< <<"- **Time L**: ">>, IntToStr(d.timeLeft), <<"ms">> >>),
                        Md(<< <<"- **Time R**: ">>, IntToStr(d.timeRight), <<"ms">> >>),
                        Md(<< <<"- **Feedback**: ">>, IntToStr(d.feedback), <<"%">> >>),
                        Md(<< <<"- **HPF**: ">>, IntToStr(d.feedbackHPF), <<"Hz">> >>),
                        Md(<< <<"- **LPF**: ">>, IntToStr(d.feedbackLPF), <<"Hz">> >>) >>
    IN  << Md(<< <<"### Rack ">>, IntToStr(fx.slot), <<": ">>, fx.name >>) >>
        \o reverbLines \o delayLines
        \o (IF Has(fx.usageHint) THEN << Md(<< <<"- **Anvandning**: ">>, Lit(Val(fx.usageHint)) >>) >>
            ELSE <<>>)
        \o (IF Has(fx.notes) THEN << Md(<< <<"- **Not**: ">>, Lit(Val(fx.notes)) >>) >> ELSE <<>>)
        \o << Blank >>

generateEffectsRackMD(m) ==
    LET effects == m.currentScene.effects
        genres == Val(Val(m.gig).artist).genre
        preset == IF Len(genres) > 0 THEN GENRE_PRESETS(genres[1]) ELSE None
        send(ch, k) ==
            IF k <= Len(ch.effectSends) THEN NumToStr(ch.effectSends[k].level) \o <<"dB">>
            ELSE Lit("-")
        row(ch) ==
            << Md(<< <<"| ">>, IntToStr(ch.number), <<" | ">>, ch.name, <<" | ">>, send(ch, 1),
                     <<" | ">>, send(ch, 2), <<" |">> >>) >>
    IN  IF Len(effects) = 0 /\ ~HasArtist(m) THEN Threw
        ELSE Returned(
            Static(<<"# Effects Rack Setup", "",
                     "> Konfigurera dessa effekter manuellt i QL1 -> **RACK**", "">>)
            \o (IF Len(effects) = 0
                THEN (IF Has(preset) THEN GenreEffectLines(Val(preset)) ELSE <<>>)
                ELSE Static(<<"## Konfigurerade effekter", "">>) \o ForEach(effects, RackLines, 1))
            \o Static(<<"## FX Send-nivaer", "", "| CH | Namn | FX1 (Reverb) | FX2 (Delay) |",
                        "|:--:|------|:------------:|:-----------:|">>)
            \o ForEach(m.currentScene.channels, row, 1))

generatePremiumRackMD(m) ==
    LET premiumRack == IF Has(m.currentScene.premiumRack) THEN Val(m.currentScene.premiumRack) ELSE <<>>
        unitLines(unit) ==
            << Md(<< <<"### Slot ">>, IntToStr(unit.slot), <<": ">>, unit.name >>),
               Md(<< <<"- **Typ**: ">>, Lit(unit.type) >>) >>
            \o (IF Len(unit.assignedTo) > 0
                THEN << Md(<< <<"- **Tilldelas**: ">>, Concat(unit.assignedTo) >>) >> ELSE <<>>)
            \o (IF Has(unit.notes) THEN << Md(<< <<"- **Anteckningar**: ">>, Lit(Val(unit.notes)) >>) >>
                ELSE <<>>)
            \o << Blank >>
    IN  Returned(
            Static(<<"# Premium Rack Setup", "", "> Yamaha Premium Rack-enheter for analog karaktar", "">>)
            \o (IF Len(premiumRack) = 0
                THEN Static(<<"## Rekommenderade Premium Rack for denna show", "",
                              "### Slot 1-2: Rupert Neve Designs Portico 5033 EQ",
                              "- **Anvandning**: Huvudsang, viktiga akustiska kallor",
                              "- **Karaktar**: \"Silk\" for varmt, oppet toppar",
                              "- **Tips**: Subtilt - 1-2 dB boost racker", "",
                              "### Slot 3-4: Rupert Neve Designs Portico 5043 Comp",
                              "- **Anvandning**: Sang, akustisk gitarr",
                              "- **Installning**: Ratio 2-3:1, soft knee",
                              "- **Blend**: 60-70% for parallell kompression", "",
                              "### Slot 5-6: U76 Compressor", "- **Anvandning**: Trummor (om tillampligt)",
                              "- **Karaktar**: Snabb attack for transienter", "">>)
                ELSE ForEach(premiumRack, unitLines, 1))
            \o Static(<<"## Insert-routing", "", "For att anvanda Premium Rack som insert:", "",
                        "1. Valj kanal -> **INSERT**", "2. Satt **INSERT ON**",
                        "3. Valj **PREMIUM RACK** som kalla", "4. Valj rack-slot">>))

IsMonitor(b) == b.type = "aux" /\ b.purpose \in {Some("monitor"), Some("iem")}

generateMonitorGuideMD(m) ==
    LET monitors == Filter(m.currentScene.buses, IsMonitor)
        channels == m.currentScene.channels
        monLines(mon) ==
            << Md(<< <<"### ">>, mon.name >>),
               Md(<< <<"- **Typ**: ">>, Lit(IF mon.purpose = Some("iem") THEN "In-Ear" ELSE "Wedge") >>) >>
            \o (IF Has(mon.feedDescription)
                THEN << Md(<< <<"- **For**: ">>, Lit(Val(mon.feedDescription)) >>) >> ELSE <<>>)
            \o (IF Has(mon.output)
                THEN << Md(<< <<"- **Output**: Dante ">>, IntToStr(Val(mon.output).port) >>) >>
                ELSE <<>>)
            \o (IF Has(mon.notes)
                THEN << Md(<< <<"- **Anteckningar**: ">>, Lit(Val(mon.notes)) >>) >> ELSE <<>>)
            \o << Blank >>
        level(ch, mon) ==
            LET send == Find(Val(ch.busSends), LAMBDA x : x.busId = mon.id)
            IN  IF Has(send) /\ Val(send).enabled
                THEN (IF Val(send).level = -9600 THEN <<" -inf |">>
                      ELSE <<" ">> \o NumToStr(Val(send).level) \o <<" |">>)
                ELSE <<" - |">>
        row(ch) ==
            << Md(<< <<"| ">>, OptStr(ch.shortName), <<" |">>,
                     Concat([k \in 1..Len(monitors) |-> level(ch, monitors[k])]) >>) >>
    IN  IF Len(monitors) = 0
        THEN Returned(Static(<<"# Monitor Guide", "", "*Inga monitormixar konfigurerade.*">>))
        ELSE IF \E i \in 1..Len(channels) : ~Has(channels[i].busSends) THEN Threw
        ELSE Returned(
            Static(<<"# Monitor Guide", "", "## Monitor-mixar", "">>)
            \o ForEach(monitors, monLines, 1)
            \o Static(<<"## Monitor-nivaer", "">>)
            \o << Md(<< <<"| Kanal |">>,
                        Concat([k \in 1..Len(monitors) |->
                                   <<" ">> \o OptStr(monitors[k].shortName) \o <<" |">>]) >>),
                  Md(<< <<"|-------|">>, Concat([k \in 1..Len(monitors) |-> <<":---:|">>]) >>) >>
            \o ForEach(channels, row, 1))

\* genres.join(', ')
JoinGenres(genres) ==
    Concat([k \in 1..Len(genres) |-> IF k = 1 THEN Lit(genres[k]) ELSE <<", ", genres[k]>>])

\* new Date().toISOString().split('T')[0] on the day the export runs
IsoDate(today) == <<"2024-06-">> \o Pad2(14 + today)

generateMasterDocMD(m, today) ==
    LET model == getModelString(m.console.model)
        gig == Val(m.gig)
        notes == m.aiNotes
        decisions == IF Has(notes) THEN Val(notes).processingDecisions ELSE <<>>
        decisionLines(d) ==
            << Md(<< <<"### ">>, Lit(Val(d.category)) >>),
               Md(<< <<"- **Beslut**: ">>, Lit(d.decision) >>),
               Md(<< <<"- **Motivering**: ">>, Lit(d.reasoning) >>),
               Md(<< <<"- **Konfidens**: ">>, Lit(d.confidence) >>), Blank >>
        count(n) == IntToStr(n)
    IN  IF \/ ~Has(m.gig) \/ ~Has(gig.artist) \/ ~Has(gig.venue)
           \/ \E i \in 1..Len(decisions) : ~Has(decisions[i].category)
           \/ ~AllHaveInput(m)
        THEN Threw
        ELSE Returned(
            << Md(<< <<"# ">>, gig.name, <<" - ">>, Lit(model), <<" Setup">> >>), Blank,
               Md(<< <<"**Datum**: ">>, gig.date >>),
               Md(<< <<"**Artist**: ">>, Val(gig.artist).name >>),
               Md(<< <<"**Genre**: ">>, JoinGenres(Val(gig.artist).genre) >>),
               Md(<< <<"**Venue**: ">>, Val(gig.venue).name >>), Blank >>
            \o (IF Has(notes) /\ Has(Val(notes).mixPhilosophy)
                THEN << <<Lit("## Mix-filosofi")>>, Blank,
                        Md(<< <<"> ">>, Lit(Val(Val(notes).mixPhilosophy)) >>), Blank >>
                ELSE <<>>)
            \o (IF Len(decisions) > 0
                THEN Static(<<"## AI-rekommendationer", "">>) \o ForEach(decisions, decisionLines, 1)
                ELSE <<>>)
            \o Static(<<"## Snabbreferens", "", "| Resurs | Antal |", "|--------|------:|">>)
            \o << Md(<< <<"| Kanaler | ">>, count(Len(m.currentScene.channels)), <<" |">> >>),
                  Md(<< <<"| Bussar | ">>, count(Len(m.currentScene.buses)), <<" |">> >>),
                  Md(<< <<"| DCAs | ">>, count(Len(m.currentScene.dcas)), <<" |">> >>),
                  Md(<< <<"| Effekter | ">>, count(Len(m.currentScene.effects)), <<" |">> >>),
                  Md(<< <<"| +48V Kanaler | ">>,
                        count(Len(Filter(m.currentScene.channels, IsPhantomOn))), <<" |">> >>) >>
            \o Static(<<"", "## Checklista", "", "- [ ] Importera CSV-filer i Editor",
                        "- [ ] Aktivera +48V (se PhantomPower.md)", "- [ ] Stall in Gain (se GainSheet.md)",
                        "- [ ] Konfigurera EQ (se EQ_Guide.md)",
                        "- [ ] Satt upp Dynamics (se Dynamics_Guide.md)",
                        "- [ ] Montera Effects Rack (se Effects_Rack.md)",
                        "- [ ] Montera Premium Rack (se Premium_Rack.md)", "- [ ] Spara till USB",
                        "- [ ] Ladda in i bord", "- [ ] Line check", "", "---">>)
            \o << Md(<< <<"*Genererat av Gig-Prepper ">>, IsoDate(today), <<"*">> >>) >>)

Yamaha_generateReadmeMD(m) ==
    LET model == getModelString(m.console.model)
    IN  Returned(
            << Md(<< <<"# Import-instruktioner for ">>, Lit(model) >>), Blank >>
            \o Static(<<"## Filstruktur", "", "### CSV-filer (importeras i Editor)",
                        "| Fil | Innehall |", "|-----|----------|",
                        "| InName.csv | Kanalnamn, farger, ikoner |",
                        "| InPatch.csv | Dante/Lokal input-routing |", "| OutPatch.csv | Output-routing |",
                        "| PortRackPatch.csv | Dante-utgangar |", "| MixName.csv | Monitor/Aux-namn |",
                        "| MtxName.csv | Matrix-namn |", "| DCAName.csv | DCA-namn |",
                        "| StName.csv | Stereo-inputs |", "| StMonoName.csv | Master L/R/Mono |", "",
                        "### Dokumentation (manuell konfiguration)", "| Fil | Innehall |",
                        "|-----|----------|", "| MASTER.md | Oversikt och checklista |",
                        "| PhantomPower.md | +48V-kanaler |", "| GainSheet.md | Gain-startpunkter |",
                        "| EQ_Guide.md | EQ per kanal |", "| Dynamics_Guide.md | Gate och kompressor |",
                        "| Effects_Rack.md | Reverb, delay, etc. |", "| Premium_Rack.md | Neve, etc. |",
                        "| Monitor_Guide.md | Monitormixar |", "", "## Import-steg", "">>)
            \o << Md(<< <<"### 1. Oppna ">>, Lit(model), <<" Editor">> >>),
                  Md(<< <<"- Starta Yamaha ">>, Lit(model), <<" Editor">> >>) >>
            \o Static(<<"- File -> New eller oppna befintligt projekt", "", "### 2. Importera CSV",
                        "1. **File -> Import -> Channel Name Table** -> InName.csv",
                        "2. **File -> Import -> Input Patch Table** -> InPatch.csv",
                        "3. **File -> Import -> Output Patch Table** -> PortRackPatch.csv",
                        "4. Fortsatt med ovriga CSV-filer", "", "### 3. Manuell konfiguration",
                        "Folj dokumentationen i ordning:", "1. PhantomPower.md - Aktivera +48V",
                        "2. GainSheet.md - Satt gain-nivaer", "3. EQ_Guide.md - Konfigurera EQ",
                        "4. Dynamics_Guide.md - Gate/kompressor", "5. Effects_Rack.md - Satt upp effekter",
                        "6. Premium_Rack.md - Montera premium rack", "", "### 4. Spara och ladda",
                        "1. File -> Save As -> USB-minne (.CLF-fil)">>)
            \o << Md(<< <<"2. Satt USB i ">>, Lit(model) >>) >>
            \o Static(<<"3. Load -> USB -> Valj fil", "4. Verifiera att allt laddats korrekt", "",
                        "## Line Check", "", "1. Testa varje kanal med signal",
                        "2. Justera gain till -18 till -12 dBFS peak", "3. Verifiera +48V pa kondensatorer",
                        "4. Kontrollera routing till PA och monitorer", "5. Testa effekter", "", "---",
                        "*Gig-Prepper AI Sound Engineer*">>))

YamahaInstructions ==
    << "1. Packa upp ZIP-filen", "2. Importera CSV-filer i Yamaha Editor",
       "3. Folj MASTER.md for manuell konfiguration", "4. Spara som .CLF till USB",
       "5. Ladda in i bord och kor line check" >>

\* (c.shortName || c.name).length > 8
HasLongName(ch) == Len(OrElse(ch.shortName, ch.name)) > 8

\* the files YamahaAdapter.export pushes, in order, each with its generator's outcome
YamahaGenerators(m, today) ==
    LET csv(name, gen) == [filename |-> <<name>>, extension |-> ".csv", gen |-> gen]
        md(name, gen) == [filename |-> <<name>>, extension |-> ".md", gen |-> gen]
    IN          << csv("InName.csv", generateInNameCSV(m)),
                   csv("InPatch.csv", generateInPatchCSV(m)),
                   csv("OutPatch.csv", generateOutPatchCSV(m)),
                   csv("PortRackPatch.csv", generatePortRackPatchCSV(m)),
                   csv("MixName.csv", generateMixNameCSV(m)),
                   csv("MtxName.csv", generateMtxNameCSV(m)),
                   csv("DCAName.csv", generateDCANameCSV(m)),
                   csv("StName.csv", generateStNameCSV(m)),
                   csv("StMonoName.csv", generateStMonoNameCSV(m)),
                   md("MASTER.md", generateMasterDocMD(m, today)),
                   md("PhantomPower.md", generatePhantomPowerMD(m)),
                   md("GainSheet.md", Yamaha_generateGainSheetMD(m)),
                   md("EQ_Guide.md", generateEQGuideMD(m)),
                   md("Dynamics_Guide.md", generateDynamicsGuideMD(m)),
                   md("Effects_Rack.md", generateEffectsRackMD(m)),
                   md("Premium_Rack.md", generatePremiumRackMD(m)),
                   md("Monitor_Guide.md", generateMonitorGuideMD(m)),
                   md("README.md", Yamaha_generateReadmeMD(m)) >>

\* YamahaAdapter.export: try { push eighteen files; add warnings } catch { push an error }
YamahaAdapter_export(m, today) ==
    LET gens == YamahaGenerators(m, today)
        caught == AnyThrew(gens) \/ ~AllHaveInput(m)
        phantomCount == Len(Filter(m.currentScene.channels, IsPhantomOn))
        longNames == Len(Filter(m.currentScene.channels, HasLongName))
        warnings ==
            (IF phantomCount > 0 THEN << IntToStr(phantomCount) \o <<" kanal(er) kraver +48V">> >>
             ELSE <<>>)
            \o (IF longNames > 0
                THEN << IntToStr(longNames) \o <<" kanal(er) har namn langre an 8 tecken">> >>
                ELSE <<>>)
        errors == IF caught THEN << <<"Export misslyckades: ", "TypeError">> >> ELSE <<>>
    IN  [threw |-> FALSE,
         success |-> Len(errors) = 0,
         files |-> FilesBeforeThrow(gens, 1),
         warnings |-> IF caught THEN <<>> ELSE warnings,
         errors |-> errors,
         instructions |-> YamahaInstructions]

\* adapter.export(mix) of the adapter registered under the given name
export(adapter, m, today) ==
    IF adapter = "x32" THEN X32Adapter_export(m) ELSE YamahaAdapter_export(m, today)

(***************************************************************************)
(* The generate_files tool                                                 *)
(***************************************************************************)
\* the outcome of a generate call: it raises, or returns its files
GenerateOutcome(gens, raises) ==
    IF raises \/ AnyThrew(gens) THEN [threw |-> TRUE, files |-> <<>>]
    ELSE [threw |-> FALSE,
          files |-> [i \in 1..Len(gens) |-> [name |-> gens[i].filename,
                                             extension |-> gens[i].extension]]]

\* X32Adapter.generate: the scene file, README.md and GainSheet.md, with no try
X32Adapter_generate(m) == GenerateOutcome(X32Generators(m), ~Has(m.gig))

\* YamahaAdapter.generate: the tables and documents of the export, with no try
YamahaAdapter_generate(m, today) == GenerateOutcome(YamahaGenerators(m, today), FALSE)

\* what the tool is handed as its mix argument: the JSON text of the session, the
\* JSON text of an object that has no currentScene, or a text that is no JSON
ToolArguments == {"mix", "noScene", "text"}

ToolFormats == {"yamaha-csv", "x32-scene", "dlive-show"}

\* the reply of the tool when it stops with an error
ToolError(message) == [success |-> FALSE, error |-> message, files |-> <<>>]

\* file.name.endsWith('.md')
IsDocumentation(file) == file.extension = ".md"

\* generateFilesTool.func: the reply without the text and size of each file
generateFilesTool(arg, m, format, includeDocumentation, today) ==
    IF arg # "mix" THEN ToolError("Invalid mix: missing currentScene.channels")
    ELSE IF format = "dlive-show"
    THEN ToolError("Allen & Heath dLive adapter not yet implemented. Coming soon!")
    ELSE LET generated == IF format = "yamaha-csv" THEN YamahaAdapter_generate(m, today)
                          ELSE X32Adapter_generate(m)
             kept == Filter(generated.files,
                            LAMBDA f : includeDocumentation \/ ~IsDocumentation(f))
             primary == IF format = "yamaha-csv" THEN ".csv" ELSE ".scn"
             files == [i \in 1..Len(kept) |->
                         [name |-> kept[i].name,
                          type |-> IF kept[i].extension = primary
                                   THEN SubSeq(primary, 2, 4) ELSE "md"]]
         IN  IF generated.threw THEN ToolError("TypeError")
             ELSE [success |-> TRUE, format |-> format, totalFiles |-> Len(files),
                   csvFiles |-> Len(Filter(files, LAMBDA f : f.type = "csv")),
                   sceneFiles |-> Len(Filter(files, LAMBDA f : f.type = "scn")),
                   documentationFiles |-> Len(Filter(files, LAMBDA f : f.type = "md")),
                   files |-> files]

(***************************************************************************)
(* The build_mix tool                                                      *)
(***************************************************************************)
MaxSlot == 4           \* largest stagebox slot of a build request

\* a match of a, then only white space, then a match of b (/a\s*b/)
IncludesSpaced(str, a, b) ==
    \E i \in 1..(Len(str) - Len(a) + 1) :
        /\ SubSeq(str, i, i + Len(a) - 1) = a
        /\ \E j \in (i + Len(a))..(Len(str) - Len(b) + 1) :
               /\ SubSeq(str, j, j + Len(b) - 1) = b
               /\ \A k \in (i + Len(a))..(j - 1) : str[k] = " "

\* a match of a, then any characters, then a match of b (/a.*b/)
IncludesThen(str, a, b) ==
    \E i \in 1..(Len(str) - Len(a) + 1) :
        /\ SubSeq(str, i, i + Len(a) - 1) = a
        /\ \E j \in (i + Len(a))..(Len(str) - Len(b) + 1) :
               SubSeq(str, j, j + Len(b) - 1) = b

\* a match of key that ends at a word boundary (/key\b/)
IncludesWordEnd(str, key) ==
    \E i \in 1..(Len(str) - Len(key) + 1) :
        /\ SubSeq(str, i, i + Len(key) - 1) = key
        /\ (i + Len(key) > Len(str) \/ str[i + Len(key)] \notin AlnumChars \cup {"_"})

\* categorizeInstrument: the first pattern that the lower-cased name matches decides
categorizeInstrument(name) ==
    LET lower == SubSeq(LowerStr(name), 1, Len(name))
        is(category, color, icon) == [category |-> category, color |-> color, icon |-> icon]
    IN  IF (Includes(lower, <<"k", "i", "c", "k">>) \/ Includes(lower, <<"b", "d">>)) \/ IncludesSpaced(lower, <<"b", "a", "s", "s">>, <<"d", "r", "u", "m">>)
            THEN is("drums", "Red", "Kick")
        ELSE IF (Includes(lower, <<"s", "n", "a", "r", "e">>) \/ Includes(lower, <<"s", "d">>))
            THEN is("drums", "Red", "Snare")
        ELSE IF (Includes(lower, <<"t", "o", "m">>))
            THEN is("drums", "Red", "Hi-Tom")
        ELSE IF (Includes(lower, <<"h", "i", "h", "a", "t">>) \/ Includes(lower, <<"h", "i", "-", "h", "a", "t">>) \/ Includes(lower, <<"h", "h">>))
            THEN is("drums", "Red", "Hi-Hat")
        ELSE IF (Includes(lower, <<"o", "v", "e", "r", "h", "e", "a", "d">>) \/ Includes(lower, <<"o", "h">>) \/ Includes(lower, <<"c", "y", "m", "b", "a", "l">>))
            THEN is("drums", "Red", "Ride")
        ELSE IF (Includes(lower, <<"b", "a", "s", "s">>)) \/ IncludesWordEnd(lower, <<"b", "a", "s">>)
            THEN is("bass", "Orange", "E.Bass")
        ELSE IF (Includes(lower, <<"a", "c", "o", "u", "s", "t", "i", "c">>) \/ Includes(lower, <<"a", "k", "u", "s", "t", "i", "s", "k">>)) /\ (Includes(lower, <<"g", "i", "t">>))
            THEN is("guitar", "Yellow", "A.Guitar")
        ELSE IF (Includes(lower, <<"g", "u", "i", "t", "a", "r">>) \/ Includes(lower, <<"g", "t", "r">>) \/ Includes(lower, <<"g", "i", "t">>))
            THEN is("guitar", "Yellow", "E.Guitar")
        ELSE IF (Includes(lower, <<"p", "i", "a", "n", "o">>))
            THEN is("keys", "Cyan", "Piano")
        ELSE IF (Includes(lower, <<"k", "e", "y">>) \/ Includes(lower, <<"s", "y", "n", "t", "h">>) \/ Includes(lower, <<"o", "r", "g">>))
            THEN is("keys", "Cyan", "Keyboard")
        ELSE IF IncludesThen(lower, <<"l", "e", "a", "d">>, <<"v", "o", "c">>) \/ IncludesThen(lower, <<"l", "e", "a", "d">>, <<"v", "o", "x">>) \/ (Includes(lower, <<"s", "a-ring", "n", "g">>) \/ Includes(lower, <<"r", "o-uml", "s", "t">>))
            THEN is("vocals", "Magenta", "Female")
        ELSE IF IncludesThen(lower, <<"b", "a", "c", "k">>, <<"v", "o", "c">>) \/ IncludesThen(lower, <<"b", "a", "c", "k">>, <<"v", "o", "x">>) \/ (Includes(lower, <<"k", "o-uml", "r">>) \/ Includes(lower, <<"c", "h", "o", "i", "r">>) \/ Includes(lower, <<"k", "o", "r">>))
            THEN is("vocals", "Purple", "Female")
        ELSE IF (Includes(lower, <<"v", "o", "c">>) \/ Includes(lower, <<"v", "o", "x">>) \/ Includes(lower, <<"s", "a-ring", "n", "g">>) \/ Includes(lower, <<"v", "o", "c", "a", "l">>))
            THEN is("vocals", "Magenta", "Male")
        ELSE IF (Includes(lower, <<"v", "i", "o", "l", "i", "n">>) \/ Includes(lower, <<"f", "i", "o", "l">>) \/ Includes(lower, <<"c", "e", "l", "l", "o">>) \/ Includes(lower, <<"v", "i", "o", "l", "a">>))
            THEN is("strings", "Green", "Strings")
        ELSE IF (Includes(lower, <<"t", "r", "u", "m", "p", "e", "t">>) \/ Includes(lower, <<"s", "a", "x">>) \/ Includes(lower, <<"h", "o", "r", "n">>) \/ Includes(lower, <<"b", "l", "a-ring", "s">>))
            THEN is("brass", "Blue", "Trumpet")
        ELSE IF (Includes(lower, <<"f", "l", "u", "t", "e">>) \/ Includes(lower, <<"f", "l", "o-uml", "j", "t">>))
            THEN is("winds", "Blue", "Sax")
        ELSE IF (Includes(lower, <<"p", "e", "r", "c">>) \/ Includes(lower, <<"c", "o", "n", "g", "a">>) \/ Includes(lower, <<"d", "j", "e", "m", "b", "e">>) \/ Includes(lower, <<"s", "h", "a", "k", "e", "r">>) \/ Includes(lower, <<"t", "a", "m", "b">>))
            THEN is("percussion", "Orange", "Conga")
        ELSE is("other", "White", "Inst")

\* getHPFForInstrument(category, preset): hpfMap[category] || 100
getHPFForInstrument(category, preset) ==
    CASE category = "drums" -> 40
      [] category = "bass" -> 30
      [] category = "guitar" -> 100
      [] category = "keys" -> 80
      [] category = "vocals" -> IF preset.vocalProcessing.hpf # 0
                                THEN preset.vocalProcessing.hpf ELSE 100
      [] category = "strings" -> 80
      [] category = "brass" -> 100
      [] category = "winds" -> 150
      [] category = "percussion" -> 80
      [] OTHER -> 100

\* buildChannel(input, genre); genre is the optional genre of the request
buildChannel(input, genre) ==
    LET found == categorizeInstrument(input.name)
        preset == IF Has(genre) THEN GENRE_PRESETS(Val(genre)) ELSE None
        channel == createDefaultChannel(input.number, input.name)
        eq == Val(channel.eq)
    IN  [channel EXCEPT
            !.shortName = Some(OrElse(input.shortName, Substring0(input.name, 8))),
            !.color = Some([name |-> IF Has(input.color) /\ Val(input.color) # ""
                                     THEN Val(input.color) ELSE found.color]),
            !.category = Some(found.category),
            !.icon = Some(found.icon),
            !.input = Some([Val(channel.input) EXCEPT
                               !.inputType = IF input.diBox THEN "line" ELSE "mic",
                               !.phantomPower = IF input.phantom THEN "on" ELSE "off"]),
            !.fader = -9600,
            !.notes = IF Has(input.microphone) /\ Len(Val(input.microphone)) > 0
                      THEN Some(<<"M", "i", "c", ":", " ">> \o Val(input.microphone))
                      ELSE channel.notes,
            !.eq = IF Has(preset)
                   THEN Some([eq EXCEPT !.highPassFilter.enabled = TRUE,
                                        !.highPassFilter.frequency =
                                            getHPFForInstrument(found.category, Val(preset))])
                   ELSE channel.eq]

\* buildDefaultBuses(channelCount): six monitor mixes, whatever the channel count
buildDefaultBuses(channelCount) == [i \in 1..Min2(6, 16) |-> DefaultBus(i, "aux")]

buildDefaultDCAs == [i \in 1..Len(dcaNames) |-> DefaultDCA(i)]

\* createDefaultReverb(); times in hundredths of a second, levels in hundredths of a dB
createDefaultReverb ==
    [algorithm |-> Some("rev-x-hall"), time |-> 180, preDelay |-> 25, size |-> 50,
     diffusion |-> 80, density |-> 70, hpf |-> 100, lpf |-> 8000,
     erLevel |-> -600, tailLevel |-> 0, mix |-> 100]

createDefaultDelay ==
    [algorithm |-> Some("stereo-delay"), timeLeft |-> 350, timeRight |-> 350, sync |-> "ms",
     feedback |-> 30, feedbackHPF |-> 200, feedbackLPF |-> 6000, mix |-> 100]

\* buildEffectsRack, given the preset it found (Object.assign of the preset's
\* reverb and delay onto the defaults)
buildEffectsRack(preset) ==
    LET reverb == [createDefaultReverb EXCEPT
                      !.algorithm = Some(preset.defaultReverb.algorithm),
                      !.time = preset.defaultReverb.time,
                      !.preDelay = preset.defaultReverb.preDelay]
        delay == [createDefaultDelay EXCEPT
                      !.algorithm = Some(preset.defaultDelay.algorithm),
                      !.timeLeft = preset.defaultDelay.timeLeft,
                      !.feedback = preset.defaultDelay.feedback]
    IN  << [id |-> "fx-1", slot |-> 1, name |-> Lit("Main Reverb"), category |-> "reverb",
            bypassed |-> FALSE, reverb |-> Some(reverb), delay |-> None,
            inputSource |-> "bus", returnLevel |-> -600, usageHint |-> None, notes |-> None],
           [id |-> "fx-2", slot |-> 2, name |-> Lit("Vocal Delay"), category |-> "delay",
            bypassed |-> FALSE, reverb |-> None, delay |-> Some(delay),
            inputSource |-> "bus", returnLevel |-> -1000, usageHint |-> None, notes |-> None] >>

\* z.enum of ConsoleInputSchema
ConsoleManufacturers == {"yamaha", "behringer", "midas", "allen-heath"}

\* a stagebox whose Dante channels are counted from 0
BuildStageboxFromZero(stagebox) ==
    LET slot == IF Has(stagebox.slot) THEN Val(stagebox.slot) ELSE 1
    IN  [id |-> "stagebox-1",
         model |-> stagebox.model,
         name |-> stagebox.model,
         location |-> "Stage",
         inputCount |-> 16,
         outputCount |-> 8,
         danteStartChannel |-> (slot - 1) * 16]

\* the stagebox that buildMixTool pushes; slot is absent when the request leaves it
\* out (z.number().default(1))

BuildStagebox(stagebox) ==
    LET slot == IF Has(stagebox.slot) THEN Val(stagebox.slot) ELSE 1
    IN  [id |-> "stagebox-1",
         model |-> stagebox.model,
         name |-> stagebox.model,
         location |-> "Stage",
         inputCount |-> 16,
         outputCount |-> 8,
         danteStartChannel |-> (slot - 1) * 16 + 1]

\* the body of buildMixTool.func on a request, run on calendar day today: the
\* JSON it returns, as [success, mix]
buildMix(data, today) ==
    LET genre == IF Has(data.genre) /\ Val(data.genre) # "" THEN data.genre ELSE None
        preset == IF Has(genre) THEN GENRE_PRESETS(Val(genre)) ELSE None
        rackPreset == IF Has(genre) THEN GENRE_PRESETS(Val(genre)) ELSE GENRE_PRESETS("other")
        base == createEmptyMix(data.gigName)
        gig == [name |-> data.gigName,
                date |-> IF Has(data.date) /\ Len(Val(data.date)) > 0
                         THEN Val(data.date) ELSE IsoDate(today),
                artist |-> Some([name |-> OrElse(data.artist, <<>>),
                                 genre |-> IF Has(genre) THEN <<Val(genre)>> ELSE <<>>]),
                venue |-> Some([name |-> OrElse(data.venue, <<>>)])]
        console == [getConsoleConfig(data.console.manufacturer, data.console.model) EXCEPT
                       !.stageboxes = IF Has(data.stagebox)
                                      THEN <<BuildStagebox(Val(data.stagebox))>> ELSE <<>>]
        notes == [genreRecommendations |-> IF Has(preset) THEN <<Val(preset).mixPhilosophy>>
                                           ELSE <<>>,
                  processingDecisions |-> <<>>,
                  warnings |-> <<>>,
                  suggestions |-> <<"Kom ihag att line-checka alla kanaler",
                                    "Verifiera phantom power innan du kopplar in mikrofoner">>,
                  mixPhilosophy |-> IF Has(preset) THEN Some(Val(preset).mixPhilosophy)
                                    ELSE None]
    IN  IF \/ data.console.manufacturer \notin ConsoleManufacturers
           \/ ~Has(rackPreset)
        THEN [success |-> FALSE, mix |-> None]
        ELSE [success |-> TRUE,
              mix |-> Some([base EXCEPT
                        !.gig = Some(gig),
                        !.console = console,
                        !.currentScene.channels =
                            [i \in 1..Len(data.channels) |-> buildChannel(data.channels[i], genre)],
                        !.currentScene.buses = buildDefaultBuses(Len(data.channels)),
                        !.currentScene.dcas = buildDefaultDCAs,
                        !.currentScene.effects = buildEffectsRack(Val(rackPreset)),
                        !.aiNotes = Some(notes)])]

\* the requests the tool is given
ChannelInput(number, name) ==
    [number |-> number, name |-> name, shortName |-> None, microphone |-> None,
     phantom |-> FALSE, diBox |-> FALSE, color |-> None]

KickList ==
    << [ChannelInput(1, <<"K", "i", "c", "k">>) EXCEPT
            !.microphone = Some(<<"B", "e", "t", "a", "5", "2">>)] >>

BandList ==
    << [ChannelInput(1, <<"L", "e", "a", "d", " ", "V", "o", "x">>) EXCEPT
            !.phantom = TRUE, !.color = Some("Pink")],
       [ChannelInput(2, <<"B", "a", "s", "s">>) EXCEPT !.diBox = TRUE],
       [ChannelInput(3, VeryLongName) EXCEPT !.shortName = Some(<<"L", "o", "n", "g">>)] >>

\* a channel list and the console it is built for
BuildTargets ==
    { <<KickList, [manufacturer |-> "yamaha", model |-> "QL1"]>>,
      <<BandList, [manufacturer |-> "behringer", model |-> "x32"]>> }

StageboxInputs ==
    {None} \cup { Some([model |-> "tio1608-d", slot |-> s]) :
                    s \in {None} \cup { Some(n) : n \in 0..MaxSlot } }

BuildRequest(ch, c, sb, g, d) ==
    [gigName |-> GigName, channels |-> ch, console |-> c, stagebox |-> sb, genre |-> g,
     venue |-> None, artist |-> None, date |-> d]

\* well-formed requests that leave the date to the tool, one request for a
\* manufacturer outside the schema's list and one for a genre that has no preset
BuildInputs ==
    { BuildRequest(t[1], t[2], sb, g, None) :
        t \in BuildTargets, sb \in StageboxInputs, g \in {None, Some("rock")} }
    \cup { BuildRequest(<<>>, [manufacturer |-> "soundcraft", model |-> "vi1"], None, None,
                        Some(<<"2024-07-01">>)),
           BuildRequest(<<>>, [manufacturer |-> "yamaha", model |-> "ql1"], None, Some("polka"),
                        None) }

(***************************************************************************)
(* The helpers that encode names and colors                                *)
(***************************************************************************)
MaxNameLen == 14       \* longest name given to truncateName

\* the keys of X32_COLOR_MAP, and the table as colorNameToIndex is handed it
X32ColorKeys ==
    {"off", "black", "red", "green", "yellow", "blue", "magenta", "cyan", "white",
     "orange", "pink", "purple", "lime"}

X32ColorTable == [k \in X32ColorKeys |-> Val(X32_COLOR_MAP(k))]

\* colorMap[normalizedColor] ?? 0
colorNameToIndex(colorName, colorMap) ==
    LET normalizedColor == toLowerCase(colorName)
    IN  IF normalizedColor \in DOMAIN colorMap THEN colorMap[normalizedColor] ELSE 0

\* the names and color names the helpers are given
LongNames ==
    { VeryLongName,
      <<"L", "e", "a", "d", " ", "V", "o", "c", "a", "l", " ", "A", "n", "n", "a", "-", "K", "a">>,
      <<"A", "k", "u", "s", "t", "i", "s", "k", " ", "G", "i", "t", "a", "r", "r", " ", "1", "2">> }

Names == { Substring0(b, k) : b \in LongNames, k \in 0..MaxNameLen }

NameLimits == {8, 12}

ColorInputs ==
    X32ColorKeys
    \cup {"White", "Blue", "Yellow", "Magenta", "Orange", "Red", "Green", "Cyan", "Purple",
          "Black", "OFF"}
    \cup {"teal", "brown", ""}

(***************************************************************************)
(* The adapter registry                                                    *)
(***************************************************************************)
\* new Map()
EmptyMap == [k \in {} |-> <<>>]

\* registerAdapter(manufacturer, models, factory) on the registry given
registerAdapter(registry, manufacturer, models, factory) ==
    LET manufacturerAdapters ==
            IF manufacturer \in DOMAIN registry THEN registry[manufacturer] ELSE EmptyMap
        updated == [k \in DOMAIN manufacturerAdapters \cup models |->
                       IF k \in models THEN factory ELSE manufacturerAdapters[k]]
    IN  [m \in DOMAIN registry \cup {manufacturer} |->
            IF m = manufacturer THEN updated ELSE registry[m]]

\* a lookup that does not look at the model
getAdapterOfManufacturer(registry, manufacturer, model) ==
    IF manufacturer \notin DOMAIN registry THEN None
    ELSE LET manufacturerAdapters == registry[manufacturer]
         IN  Some([class |-> manufacturerAdapters[CHOOSE k \in DOMAIN manufacturerAdapters : TRUE].builds])

\* getAdapter(manufacturer, model): null (None) or the adapter the factory builds
getAdapter(registry, manufacturer, model) ==
    IF manufacturer \notin DOMAIN registry THEN None
    ELSE LET manufacturerAdapters == registry[manufacturer]
         IN  IF model \notin DOMAIN manufacturerAdapters THEN None
             ELSE Some([class |-> manufacturerAdapters[model].builds])

\* the registerAdapter calls at the end of the two adapter modules; a factory is
\* the arrow function of one call and builds an adapter of one class
Registrations ==
    << [module |-> "x32", manufacturer |-> "behringer", models |-> {"x32"},
        factory |-> [call |-> 1, builds |-> "X32Adapter"]],
       [module |-> "x32", manufacturer |-> "midas", models |-> {"m32"},
        factory |-> [call |-> 2, builds |-> "X32Adapter"]],
       [module |-> "yamaha", manufacturer |-> "yamaha",
        models |-> {"cl1", "cl3", "cl5", "ql1", "ql5", "tf1", "tf3", "tf5"},
        factory |-> [call |-> 3, builds |-> "YamahaAdapter"]] >>

AdapterModules == {"x32", "yamaha"}

\* the registry after the registerAdapter calls of a module, taken in order from k
RegisterAll(registry, module, k) ==
    IF k > Len(Registrations) THEN registry
    ELSE RegisterAll(IF Registrations[k].module = module
                     THEN registerAdapter(registry, Registrations[k].manufacturer,
                                          Registrations[k].models, Registrations[k].factory)
                     ELSE registry,
                     module, k + 1)

\* both adapter modules have been evaluated
LoadedRegistry == RegisterAll(RegisterAll(EmptyMap, "x32", 1), "yamaha", 1)

\* useState's initial value, which clearChat sets again
InitialChatState ==
    [messages |-> <<>>, isLoading |-> FALSE, isStreaming |-> FALSE, error |-> None,
     sessionId |-> None, provider |-> None, hasCurrentMix |-> FALSE, currentTool |-> None]

\* the endpoint before its first request
NoStream ==
    [pc |-> "idle", events |-> <<>>, closes |-> 0, cancelled |-> FALSE, chunks |-> 0,
     finalChunks |-> 0]

ServicesLoaded ==
    /\ adapterRegistry = LoadedRegistry
    /\ loadedModules = AdapterModules
    /\ sessions = EmptyMap
    /\ now = 0
    /\ uuids = 0
    /\ chat = InitialChatState
    /\ abortControllerRef = None
    /\ calls = <<>>
    /\ stream = NoStream

\* the manufacturers and models that lookups name
LookupManufacturers == ConsoleManufacturers
LookupModels ==
    {"cl1", "cl3", "cl5", "ql1", "ql5", "tf1", "tf3", "tf5", "x32", "m32", "sq5"}

(***************************************************************************)
(* The adapter calls                                                       *)
(***************************************************************************)
NoCall == [op |-> "none", adapter |-> "none"]

Init ==
    /\ mix \in Mixes
    /\ last = NoCall
    /\ ServicesLoaded

\* const result = adapter.validate(mix)
Validate(a) ==
    /\ last' = [op |-> "validate", adapter |-> a, out |-> validate(a, mix)]
    /\ UNCHANGED mix
    /\ UNCHANGED serviceVars

\* an export that cuts the channel list of its argument down to the 32 it writes
ExportTruncatingInput(a, d) ==
    /\ last' = [op |-> "export", adapter |-> a, day |-> d, out |-> export(a, mix, d)]
    /\ mix' = [mix EXCEPT !.currentScene.channels = SubSeq(@, 1, Min2(32, Len(@)))]
    /\ UNCHANGED serviceVars

\* const result = await adapter.export(mix), run on calendar day d
Export(a, d) ==
    /\ last' = [op |-> "export", adapter |-> a, day |-> d, out |-> export(a, mix, d)]
    /\ UNCHANGED mix
    /\ UNCHANGED serviceVars

Next ==
    \/ \E a \in Adapters : Validate(a)
    \/ \E a \in Adapters, d \in 1..MaxDate : Export(a, d)

Spec == Init /\ [][Next]_vars

\* the adapters given the sessions of one configured channel
DetailInit ==
    /\ mix \in DetailMixes
    /\ last = NoCall
    /\ ServicesLoaded

DetailSpec == DetailInit /\ [][Next]_vars

\* the build_mix tool called on an empty session
BuildInit ==
    /\ mix = createEmptyMix(GigName)
    /\ last = NoCall
    /\ ServicesLoaded

\* const result = await buildMixTool.func(data), run on calendar day d; the session
\* becomes the mix of a successful result
BuildMix(data, d) ==
    LET out == buildMix(data, d)
    IN  /\ last' = [op |-> "build_mix", adapter |-> "none", input |-> data, out |-> out]
        /\ mix' = IF out.success THEN Val(out.mix) ELSE mix
        /\ UNCHANGED serviceVars

BuildNext == \E data \in BuildInputs, d \in 1..MaxDate : BuildMix(data, d)

BuildSpec == BuildInit /\ [][BuildNext]_vars

\* truncateName(name, maxLength), and truncateName of its result
TruncateName(name, maxLength) ==
    /\ last' = [op |-> "truncateName", adapter |-> "none", name |-> name,
                maxLength |-> maxLength,
                out |-> truncateName(name, maxLength),
                again |-> truncateName(truncateName(name, maxLength), maxLength)]
    /\ UNCHANGED mix
    /\ UNCHANGED serviceVars

\* a color name given to the X32 channel encoder (generateChannelSection), to
\* colorNameToIndex with the X32 table, and to the Yamaha encoder getColorName
EncodeColor(name) ==
    /\ last' = [op |-> "color", adapter |-> "none", name |-> name,
                x32 |-> X32Color(Some([name |-> name]), "white", 7),
                index |-> colorNameToIndex(name, X32ColorTable),
                yamaha |-> getColorName(name)]
    /\ UNCHANGED mix
    /\ UNCHANGED serviceVars

EncoderNext ==
    \/ \E name \in Names, n \in NameLimits : TruncateName(name, n)
    \/ \E name \in ColorInputs : EncodeColor(name)

EncoderSpec == BuildInit /\ [][EncoderNext]_vars

\* a process in which no adapter module has been evaluated yet
RegistryInit ==
    /\ mix = createEmptyMix(GigName)
    /\ last = NoCall
    /\ adapterRegistry = EmptyMap
    /\ loadedModules = {}
    /\ sessions = EmptyMap
    /\ now = 0
    /\ uuids = 0
    /\ chat = InitialChatState
    /\ abortControllerRef = None
    /\ calls = <<>>
    /\ stream = NoStream

\* the first import of an adapter module: its registerAdapter calls run once
LoadModule(module) ==
    /\ module \notin loadedModules
    /\ loadedModules' = loadedModules \cup {module}
    /\ adapterRegistry' = RegisterAll(adapterRegistry, module, 1)
    /\ last' = [op |-> "import", adapter |-> module]
    /\ UNCHANGED <<mix, sessionVars, chatVars>>

\* const adapter = getAdapter(manufacturer, model)
GetAdapter(manufacturer, model) ==
    /\ last' = [op |-> "getAdapter", adapter |-> "none", manufacturer |-> manufacturer,
                model |-> model, out |-> getAdapter(adapterRegistry, manufacturer, model)]
    /\ UNCHANGED <<mix, chatVars, adapterRegistry, loadedModules, sessionVars>>

RegistryNext ==
    \/ \E module \in AdapterModules : LoadModule(module)
    \/ \E manufacturer \in LookupManufacturers, model \in LookupModels :
          GetAdapter(manufacturer, model)

RegistrySpec == RegistryInit /\ [][RegistryNext]_vars

\* await generateFilesTool.invoke({mix, format, includeDocumentation}) on day d
GenerateFiles(arg, format, includeDocumentation, d) ==
    /\ last' = [op |-> "generate_files", adapter |-> "none", arg |-> arg, format |-> format,
                includeDocumentation |-> includeDocumentation,
                out |-> generateFilesTool(arg, mix, format, includeDocumentation, d)]
    /\ UNCHANGED mix
    /\ UNCHANGED serviceVars

ToolNext ==
    \E arg \in ToolArguments, format \in ToolFormats, doc \in BOOLEAN, d \in 1..MaxDate :
        GenerateFiles(arg, format, doc, d)

\* the generate_files tool given the sessions of the adapters
ToolSpec == Init /\ [][ToolNext]_vars

(***************************************************************************)
(* The session manager                                                     *)
(***************************************************************************)
maxSessionAge == 24    \* 24 * 60 * 60 * 1000 ms, in hours
ClockStep == 12        \* the hours between two readings of the clock
MaxNow == 36           \* the last hour the clock reaches
MaxUuid == 2           \* the identifiers uuidv4 hands out

\* Date.now() - session.createdAt.getTime() > this.maxSessionAge
Expired(session, t) == t - session.createdAt > maxSessionAge

\* cleanupOldSessions: the Map without the sessions older than the maximum age
cleanupOldSessions(store, t) ==
    [id \in {i \in DOMAIN store : ~Expired(store[i], t)} |-> store[id]]

\* Object.assign(target, source) and {...target, ...source}
Assign(target, source) ==
    [f \in DOMAIN target \cup DOMAIN source |->
        IF f \in DOMAIN source THEN source[f] ELSE target[f]]

\* sessions.set(id, session)
MapSet(store, id, session) ==
    [i \in DOMAIN store \cup {id} |-> IF i = id THEN session ELSE store[i]]

\* sessions.delete(id)
MapDelete(store, id) == [i \in DOMAIN store \ {id} |-> store[i]]

\* a call of the session manager that leaves the manager as it is
SessionRead(op, id, out) ==
    /\ last' = [op |-> op, adapter |-> "none", id |-> id, out |-> out]
    /\ UNCHANGED <<mix, chatVars, adapterRegistry, loadedModules, sessions, now, uuids>>

\* a call of the session manager that replaces the session stored under id
SessionWrite(op, id, session, out, drawn) ==
    /\ last' = [op |-> op, adapter |-> "none", id |-> id, out |-> out]
    /\ sessions' = MapSet(sessions, id, session)
    /\ uuids' = uuids + drawn
    /\ UNCHANGED <<mix, chatVars, adapterRegistry, loadedModules, now>>

\* sessionManager.create(provider, language)
SessionCreate(provider, language) ==
    /\ uuids < MaxUuid
    /\ LET id == uuids + 1
           session == [id |-> id, createdAt |-> now, provider |-> provider,
                       currentMix |-> None, uploadedFiles |-> <<>>, messages |-> <<>>,
                       preferences |-> [language |-> language]]
       IN  /\ sessions' = cleanupOldSessions(MapSet(sessions, id, session), now)
           /\ last' = [op |-> "create", adapter |-> "none", id |-> id, out |-> Some(session)]
    /\ uuids' = uuids + 1
    /\ UNCHANGED <<mix, chatVars, adapterRegistry, loadedModules, now>>

\* sessionManager.get(id)
SessionGet(id) ==
    IF id \in DOMAIN sessions /\ Expired(sessions[id], now)
    THEN /\ sessions' = MapDelete(sessions, id)
         /\ last' = [op |-> "get", adapter |-> "none", id |-> id, out |-> None]
         /\ UNCHANGED <<mix, chatVars, adapterRegistry, loadedModules, now, uuids>>
    ELSE SessionRead("get", id, IF id \in DOMAIN sessions THEN Some(sessions[id]) ELSE None)

\* sessionManager.update(id, updates)
SessionUpdate(id, updates) ==
    IF id \notin DOMAIN sessions THEN SessionRead("update", id, None)
    ELSE LET session == Assign(sessions[id], updates)
         IN  SessionWrite("update", id, session, Some(session), 0)

\* sessionManager.delete(id)
SessionDelete(id) ==
    /\ last' = [op |-> "delete", adapter |-> "none", id |-> id, out |-> id \in DOMAIN sessions]
    /\ sessions' = MapDelete(sessions, id)
    /\ UNCHANGED <<mix, chatVars, adapterRegistry, loadedModules, now, uuids>>

\* sessionManager.addMessage(sessionId, role, content)
SessionAddMessage(id, role, content) ==
    IF id \notin DOMAIN sessions THEN SessionRead("addMessage", id, None)
    ELSE /\ uuids < MaxUuid
         /\ LET message == [id |-> uuids + 1, role |-> role, content |-> content,
                            timestamp |-> now]
            IN  SessionWrite("addMessage", id,
                             [sessions[id] EXCEPT !.messages = Append(@, message)],
                             Some(message), 1)

\* sessionManager.getHistory(sessionId, maxMessages); maxMessages 0 stands for none given
SessionGetHistory(id, maxMessages) ==
    IF id \notin DOMAIN sessions THEN SessionRead("getHistory", id, <<>>)
    ELSE LET messages == sessions[id].messages
         IN  SessionRead("getHistory", id,
                         IF maxMessages # 0 /\ Len(messages) > maxMessages
                         THEN SubSeq(messages, Len(messages) - maxMessages + 1, Len(messages))
                         ELSE messages)

\* sessionManager.addUploadedFile(sessionId, file)
SessionAddUploadedFile(id, filename) ==
    IF id \notin DOMAIN sessions THEN SessionRead("addUploadedFile", id, None)
    ELSE /\ uuids < MaxUuid
         /\ LET uploadedFile == [id |-> uuids + 1, filename |-> filename, parsed |-> FALSE,
                                 uploadedAt |-> now]
            IN  SessionWrite("addUploadedFile", id,
                             [sessions[id] EXCEPT !.uploadedFiles = Append(@, uploadedFile)],
                             Some(uploadedFile), 1)

\* sessionManager.markFileParsed(sessionId, fileId)
SessionMarkFileParsed(id, fileId) ==
    IF id \notin DOMAIN sessions THEN SessionRead("markFileParsed", id, None)
    ELSE LET files == sessions[id].uploadedFiles
             marked == [k \in 1..Len(files) |->
                          IF files[k].id = fileId THEN [files[k] EXCEPT !.parsed = TRUE]
                          ELSE files[k]]
         IN  SessionWrite("markFileParsed", id,
                          [sessions[id] EXCEPT !.uploadedFiles = marked], None, 0)

\* sessionManager.setCurrentMix(sessionId, mix)
SessionSetCurrentMix(id) ==
    IF id \notin DOMAIN sessions THEN SessionRead("setCurrentMix", id, None)
    ELSE SessionWrite("setCurrentMix", id,
                      [sessions[id] EXCEPT !.currentMix = Some(mix)], None, 0)

\* sessionManager.getCurrentMix(sessionId)
SessionGetCurrentMix(id) ==
    SessionRead("getCurrentMix", id,
                IF id \in DOMAIN sessions THEN sessions[id].currentMix ELSE None)

\* sessionManager.updatePreferences(sessionId, preferences)
SessionUpdatePreferences(id, preferences) ==
    IF id \notin DOMAIN sessions THEN SessionRead("updatePreferences", id, None)
    ELSE SessionWrite("updatePreferences", id,
                      [sessions[id] EXCEPT !.preferences = Assign(@, preferences)], None, 0)

\* time passes between two calls
ClockAdvance ==
    /\ now < MaxNow
    /\ now' = now + ClockStep
    /\ last' = [op |-> "wait", adapter |-> "none"]
    /\ UNCHANGED <<mix, chatVars, adapterRegistry, loadedModules, sessions, uuids>>

SessionUpdates == { [provider |-> "claude"] }
PreferenceUpdates == { [defaultGenre |-> "rock"] }

SessionNext ==
    \/ SessionCreate("gemini", "sv")
    \/ \E id \in 1..MaxUuid : SessionGet(id)
    \/ \E id \in 1..MaxUuid, updates \in SessionUpdates : SessionUpdate(id, updates)
    \/ \E id \in 1..MaxUuid : SessionDelete(id)
    \/ \E id \in 1..MaxUuid : SessionAddMessage(id, "user", "hej")
    \/ \E id \in 1..MaxUuid, maxMessages \in {0, 1} : SessionGetHistory(id, maxMessages)
    \/ \E id \in 1..MaxUuid : SessionAddUploadedFile(id, "rider.pdf")
    \/ \E id \in 1..MaxUuid, fileId \in 1..MaxUuid : SessionMarkFileParsed(id, fileId)
    \/ \E id \in 1..MaxUuid : SessionSetCurrentMix(id)
    \/ \E id \in 1..MaxUuid : SessionGetCurrentMix(id)
    \/ \E id \in 1..MaxUuid, preferences \in PreferenceUpdates :
          SessionUpdatePreferences(id, preferences)
    \/ ClockAdvance

\* a process whose session manager holds no session yet
SessionSpec == BuildInit /\ [][SessionNext]_vars

(***************************************************************************)
(* The useStreamingChat hook                                               *)
(***************************************************************************)
MaxCalls == 2          \* the sendMessage calls of one chat
MaxEvents == 2         \* the events a response carries before its terminal event

\* prev.messages.map(msg => msg.id === id ? change(msg) : msg)
MapMessage(messages, id, change(_)) ==
    [k \in 1..Len(messages) |-> IF messages[k].id = id THEN change(messages[k])
                                ELSE messages[k]]

\* the events the endpoint sends before its terminal event
ProgressEvents ==
    { [type |-> "text", content |-> "Hej"],
      [type |-> "status", status |-> "thinking"],
      [type |-> "tool", name |-> "build_mix", status |-> "running"],
      [type |-> "tool", name |-> "build_mix", status |-> "complete"],
      [type |-> "tools", status |-> "executing"],
      [type |-> "session", provider |-> "gemini"] }

\* the events the endpoint sends last
TerminalEvents ==
    { [type |-> "done", sessionId |-> "s1", toolsUsed |-> <<"build_mix">>,
       provider |-> "gemini", hasCurrentMix |-> TRUE],
      [type |-> "error", error |-> "Rate limit"] }

\* the state after the switch on eventType || parsed.type, inside the try of one data line
AfterEvent(prev, call, ev) ==
    CASE ev.type = "text" ->
           [prev EXCEPT !.messages =
               MapMessage(@, call.assistantMessageId,
                          LAMBDA msg : [msg EXCEPT !.content = @ \o <<ev.content>>])]
      [] ev.type = "tool" /\ ev.status = "running" ->
           [prev EXCEPT !.currentTool = Some(ev.name)]
      [] ev.type = "tool" /\ ev.status = "complete" ->
           [prev EXCEPT !.currentTool = None]
      [] ev.type = "session" ->
           [prev EXCEPT !.provider = Some(ev.provider)]
      [] ev.type = "done" ->
           [prev EXCEPT
               !.messages = MapMessage(@, call.assistantMessageId,
                                LAMBDA msg : [msg EXCEPT !.isStreaming = Some(FALSE),
                                                         !.toolsUsed = Some(ev.toolsUsed)]),
               !.isLoading = FALSE,
               !.isStreaming = FALSE,
               !.sessionId = Some(ev.sessionId),
               !.provider = Some(ev.provider),
               !.hasCurrentMix = ev.hasCurrentMix,
               !.currentTool = None]
      [] OTHER -> prev

\* the catch of sendMessage for an error that is no AbortError
AfterFailure(prev, call, errorMessage) ==
    [prev EXCEPT
        !.isLoading = FALSE,
        !.isStreaming = FALSE,
        !.error = Some(errorMessage),
        !.messages = MapMessage(@, call.assistantMessageId,
                         LAMBDA msg : [msg EXCEPT
                             !.content = IF @ = <<>> THEN <<"Fel: ", errorMessage>> ELSE @,
                             !.isStreaming = Some(FALSE)]),
        !.currentTool = None]

\* the setState after the read loop: 'Ensure streaming is marked as complete'
AfterStream(prev, call) ==
    [prev EXCEPT
        !.isLoading = FALSE,
        !.isStreaming = FALSE,
        !.messages = MapMessage(@, call.assistantMessageId,
                         LAMBDA msg : [msg EXCEPT
                             !.isStreaming = Some(FALSE),
                             !.toolsUsed = IF Len(call.toolsUsed) > 0
                                           THEN Some(call.toolsUsed) ELSE @])]

\* a hook that has sent no message
ChatInit ==
    /\ mix = createEmptyMix(GigName)
    /\ last = NoCall
    /\ ServicesLoaded

\* sendMessage(message) up to its fetch: the call of number Len(calls) + 1
SendMessage(message) ==
    /\ Len(calls) < MaxCalls
    /\ LET n == Len(calls) + 1
           userMessage == [id |-> <<"user-", n>>, role |-> "user", content |-> <<message>>,
                           isStreaming |-> None, toolsUsed |-> None]
           assistantMessage == [id |-> <<"assistant-", n>>, role |-> "assistant",
                                content |-> <<>>, isStreaming |-> Some(TRUE),
                                toolsUsed |-> None]
           aborted == [k \in 1..Len(calls) |->
                          IF abortControllerRef = Some(k) THEN [calls[k] EXCEPT !.aborted = TRUE]
                          ELSE calls[k]]
       IN  /\ calls' = Append(aborted,
                              [assistantMessageId |-> assistantMessage.id, pc |-> "fetch",
                               aborted |-> FALSE, toolsUsed |-> <<>>, received |-> 0,
                               terminal |-> FALSE, errorEvent |-> None])
           /\ abortControllerRef' = Some(n)
           /\ chat' = [chat EXCEPT
                          !.messages = @ \o <<userMessage, assistantMessage>>,
                          !.isLoading = TRUE,
                          !.isStreaming = TRUE,
                          !.error = None,
                          !.currentTool = None]
    /\ last' = [op |-> "sendMessage", adapter |-> "none"]
    /\ UNCHANGED <<mix, stream, adapterRegistry, loadedModules, sessionVars>>

\* a step of the call c that leaves the controller and the other calls alone
CallStep(c, op, call, state) ==
    /\ calls' = [calls EXCEPT ![c] = call]
    /\ chat' = state
    /\ last' = [op |-> op, adapter |-> "none", call |-> c]
    /\ UNCHANGED <<mix, stream, abortControllerRef, adapterRegistry, loadedModules, sessionVars>>

\* await fetch(...) settles: a response with a body, a response that is not ok,
\* or a rejection by the network
FetchSettles(c, outcome) ==
    /\ c \in 1..Len(calls)
    /\ calls[c].pc = "fetch"
    /\ ~calls[c].aborted
    /\ CASE outcome = "ok" -> CallStep(c, "fetch", [calls[c] EXCEPT !.pc = "read"], chat)
         [] outcome = "status" ->
              CallStep(c, "fetch", [calls[c] EXCEPT !.pc = "returned"],
                       AfterFailure(chat, calls[c], "HTTP error: 500"))
         [] OTHER ->
              CallStep(c, "fetch", [calls[c] EXCEPT !.pc = "returned"],
                       AfterFailure(chat, calls[c], "Failed to fetch"))

\* the pending fetch or read of an aborted call rejects with an AbortError: return
AbortDelivered(c) ==
    /\ c \in 1..Len(calls)
    /\ calls[c].pc # "returned"
    /\ calls[c].aborted
    /\ CallStep(c, "aborted", [calls[c] EXCEPT !.pc = "returned"], chat)

\* reader.read() yields the data line of one event, which the loop processes; the
\* throw of the error case is caught by the catch around JSON.parse, which adds
\* nothing for data that starts with a brace
ReceiveEvent(c, ev) ==
    /\ c \in 1..Len(calls)
    /\ calls[c].pc = "read"
    /\ ~calls[c].aborted
    /\ ~calls[c].terminal
    /\ ev \in TerminalEvents \/ calls[c].received < MaxEvents
    /\ CallStep(c, "event",
                [calls[c] EXCEPT
                    !.received = @ + 1,
                    !.terminal = ev \in TerminalEvents,
                    !.errorEvent = IF ev.type = "error" THEN Some(ev.error) ELSE @,
                    !.toolsUsed = IF ev.type = "tool" /\ ev.status = "complete"
                                  THEN Append(@, ev.name) ELSE @],
                AfterEvent(chat, calls[c], ev))

\* reader.read() yields done after the endpoint has closed the stream
StreamEnds(c) ==
    /\ c \in 1..Len(calls)
    /\ calls[c].pc = "read"
    /\ ~calls[c].aborted
    /\ calls[c].terminal
    /\ CallStep(c, "end", [calls[c] EXCEPT !.pc = "returned"], AfterStream(chat, calls[c]))

\* reader.read() rejects: the connection is lost before the stream has ended
ConnectionLost(c) ==
    /\ c \in 1..Len(calls)
    /\ calls[c].pc = "read"
    /\ ~calls[c].aborted
    /\ ~calls[c].terminal
    /\ CallStep(c, "lost", [calls[c] EXCEPT !.pc = "returned"],
                AfterFailure(chat, calls[c], "network error"))

\* stopStreaming()
StopStreaming ==
    /\ calls' = [k \in 1..Len(calls) |->
                    IF abortControllerRef = Some(k) THEN [calls[k] EXCEPT !.aborted = TRUE]
                    ELSE calls[k]]
    /\ abortControllerRef' = None
    /\ chat' = [chat EXCEPT
                   !.isLoading = FALSE,
                   !.isStreaming = FALSE,
                   !.messages = [k \in 1..Len(@) |->
                                    IF @[k].isStreaming = Some(TRUE)
                                    THEN [@[k] EXCEPT !.isStreaming = Some(FALSE)]
                                    ELSE @[k]],
                   !.currentTool = None]
    /\ last' = [op |-> "stopStreaming", adapter |-> "none"]
    /\ UNCHANGED <<mix, stream, adapterRegistry, loadedModules, sessionVars>>

\* clearChat()
ClearChat ==
    /\ chat' = InitialChatState
    /\ last' = [op |-> "clearChat", adapter |-> "none"]
    /\ UNCHANGED <<mix, stream, calls, abortControllerRef, adapterRegistry, loadedModules,
                   sessionVars>>

\* setSessionId(id)
SetSessionId(id) ==
    /\ chat' = [chat EXCEPT !.sessionId = Some(id)]
    /\ last' = [op |-> "setSessionId", adapter |-> "none"]
    /\ UNCHANGED <<mix, stream, calls, abortControllerRef, adapterRegistry, loadedModules,
                   sessionVars>>

ChatNext ==
    \/ SendMessage("Hej")
    \/ \E c \in 1..MaxCalls, outcome \in {"ok", "status", "network"} : FetchSettles(c, outcome)
    \/ \E c \in 1..MaxCalls : AbortDelivered(c)
    \/ \E c \in 1..MaxCalls, ev \in ProgressEvents \cup TerminalEvents : ReceiveEvent(c, ev)
    \/ \E c \in 1..MaxCalls : StreamEnds(c)
    \/ \E c \in 1..MaxCalls : ConnectionLost(c)
    \/ StopStreaming
    \/ ClearChat
    \/ SetSessionId("s0")

ChatSpec == ChatInit /\ [][ChatNext]_vars

(***************************************************************************)
(* The streaming chat endpoint                                             *)
(***************************************************************************)
MaxChunks == 2         \* the chunks of one model stream

\* controller.enqueue(event): on a stream the client has cancelled enqueue raises a
\* TypeError; every handler on the way out (the catch around a tool call, the catch
\* that falls back to invoke, the outermost catch) enqueues first, so the error
\* leaves start() and the stream ends with no further event
Enqueue(s, event, pc) ==
    IF s.cancelled THEN [s EXCEPT !.pc = "rejected"]
    ELSE [s EXCEPT !.events = Append(@, event), !.pc = pc]

\* controller.enqueue(terminal event); controller.close(); return
EnqueueAndClose(s, event) ==
    IF s.cancelled THEN [s EXCEPT !.pc = "rejected"]
    ELSE [s EXCEPT !.events = Append(@, event), !.closes = @ + 1, !.pc = "returned"]

\* an outermost catch that reports the error and leaves the stream open
OuterCatchWithoutClose(s) == Enqueue(s, "error", "returned")

\* the outermost catch: enqueue(encodeError(message)); close()
OuterCatch(s) == EnqueueAndClose(s, "error")

\* the catch of the streaming attempt: enqueue status 'processing', then chain.invoke
Fallback(s) == Enqueue(s, "status", "invoke")

\* after the response is complete: store it, enqueue(encodeDone(...)); close()
Finish(s) == EnqueueAndClose(s, "done")

\* one step of start(controller); the calls of the session manager made on the way
\* raise nothing and emit nothing
StreamStep(op, s) ==
    /\ stream' = s
    /\ last' = [op |-> op, adapter |-> "none"]
    /\ UNCHANGED <<mix, chat, abortControllerRef, calls, adapterRegistry, loadedModules,
                   sessionVars>>

StreamRunning == stream.pc \notin {"idle", "returned", "rejected"}

\* POST(request): a new ReadableStream whose start awaits request.json()
Post ==
    /\ ~StreamRunning
    /\ StreamStep("POST", [pc |-> "body", events |-> <<>>, closes |-> 0, cancelled |-> FALSE,
                           chunks |-> 0, finalChunks |-> 0])

\* request.json() settles: a body with a message, a body with neither message nor
\* attachments, or no JSON
BodyRead(body) ==
    /\ stream.pc = "body"
    /\ StreamStep("body",
           CASE body = "invalid" -> OuterCatch(stream)
             [] body = "empty" -> EnqueueAndClose(stream, "error")
             [] OTHER -> Enqueue(stream, "session", "tools"))

\* ensureToolsInitialized() settles and the provider is created, or one of them raises
ToolsInitialized(ok) ==
    /\ stream.pc = "tools"
    /\ StreamStep("tools", IF ok THEN Enqueue(stream, "status", "stream")
                           ELSE OuterCatch(stream))

\* chain.stream(...) or llm.stream(...) settles
StreamOpened(ok) ==
    /\ stream.pc \in {"stream", "final"}
    /\ StreamStep("stream",
           IF ~ok THEN Fallback(stream)
           ELSE [stream EXCEPT !.pc = IF @ = "stream" THEN "chunks" ELSE "finalChunks",
                               !.finalChunks = 0])

\* the next chunk of the first stream: text, or tool calls of a known or unknown tool
Chunk(kind) ==
    /\ stream.pc = "chunks"
    /\ stream.chunks < MaxChunks
    /\ LET s == [stream EXCEPT !.chunks = @ + 1]
       IN  StreamStep("chunk",
               CASE kind = "text" -> Enqueue(s, "text", "chunks")
                 [] kind = "unknownTool" -> Enqueue(s, "tools", "chunks")
                 [] OTHER ->
                      LET announced == Enqueue(s, "tools", "chunks")
                      IN  IF announced.pc = "rejected" THEN announced
                          ELSE Enqueue(announced, "tool", "tool"))

\* the iteration of a model stream raises
ChunkFails ==
    /\ stream.pc \in {"chunks", "finalChunks"}
    /\ StreamStep("chunkFails", Fallback(stream))

\* the first stream is exhausted
ChunksEnd ==
    /\ stream.pc = "chunks"
    /\ StreamStep("end", Finish(stream))

\* tool.invoke(args) settles: 'complete' or 'error' is reported, then 'summarizing'
ToolReturns(ok) ==
    /\ stream.pc = "tool"
    /\ LET reported == Enqueue(stream, "tool", "tool")
       IN  StreamStep("tool", IF reported.pc = "rejected" THEN reported
                              ELSE Enqueue(reported, "status", "final"))

\* the next chunk of the stream that sums up the tool results
FinalChunk ==
    /\ stream.pc = "finalChunks"
    /\ stream.finalChunks < MaxChunks
    /\ StreamStep("finalChunk",
                  Enqueue([stream EXCEPT !.finalChunks = @ + 1], "text", "finalChunks"))

\* the summing-up stream is exhausted: the loop over the first stream goes on
FinalChunksEnd ==
    /\ stream.pc = "finalChunks"
    /\ StreamStep("finalEnd", [stream EXCEPT !.pc = "chunks"])

\* chain.invoke(...) settles: an answer, tool calls, or it raises
InvokeReturns(outcome) ==
    /\ stream.pc = "invoke"
    /\ StreamStep("invoke",
           CASE outcome = "fails" -> OuterCatch(stream)
             [] outcome = "toolCalls" -> [stream EXCEPT !.pc = "fallbackTool"]
             [] OTHER -> LET sent == Enqueue(stream, "text", "invoke")
                         IN  IF sent.pc = "rejected" THEN sent ELSE Finish(sent))

\* tool.invoke(args) of the fallback settles, with a result or an error
FallbackToolReturns ==
    /\ stream.pc = "fallbackTool"
    /\ StreamStep("fallbackTool", [stream EXCEPT !.pc = "fallbackFinal"])

\* llm.invoke(followUpMessages) settles
FallbackFinalReturns(ok) ==
    /\ stream.pc = "fallbackFinal"
    /\ StreamStep("fallbackFinal",
           IF ~ok THEN OuterCatch(stream)
           ELSE LET sent == Enqueue(stream, "text", "fallbackFinal")
                IN  IF sent.pc = "rejected" THEN sent ELSE Finish(sent))

\* the client aborts the request while start() awaits: the stream is cancelled
ClientCancels ==
    /\ StreamRunning
    /\ ~stream.cancelled
    /\ StreamStep("cancel", [stream EXCEPT !.cancelled = TRUE])

StreamNext ==
    \/ Post
    \/ \E body \in {"message", "empty", "invalid"} : BodyRead(body)
    \/ \E ok \in BOOLEAN : ToolsInitialized(ok)
    \/ \E ok \in BOOLEAN : StreamOpened(ok)
    \/ \E kind \in {"text", "unknownTool", "tool"} : Chunk(kind)
    \/ ChunkFails
    \/ ChunksEnd
    \/ \E ok \in BOOLEAN : ToolReturns(ok)
    \/ FinalChunk
    \/ FinalChunksEnd
    \/ \E outcome \in {"answer", "toolCalls", "fails"} : InvokeReturns(outcome)
    \/ FallbackToolReturns
    \/ \E ok \in BOOLEAN : FallbackFinalReturns(ok)
    \/ ClientCancels

StreamSpec == ChatInit /\ [][StreamNext]_vars

(***************************************************************************)
(* Properties of the adapters                                              *)
(***************************************************************************)
Validated == last.op = "validate"
Exported == last.op = "export"
NumChannels == Len(mix.currentScene.channels)
NumAux == Len(Filter(mix.currentScene.buses, IsAux))
NumMatrices == Len(Filter(mix.currentScene.buses, IsMatrix))
Rejected == ~last.out.isValid /\ Len(last.out.errors) > 0

\* the maximum number of channels an adapter declares for a model
DeclaredMaxChannels(adapter, model) ==
    IF adapter = "x32" THEN 32
    ELSE CASE model = "cl1" -> 48 [] model = "cl3" -> 64 [] model = "cl5" -> 72
           [] model = "ql1" -> 32 [] model = "ql5" -> 64
           [] model = "tf1" -> 16 [] model = "tf3" -> 24 [] model = "tf5" -> 32
           [] OTHER -> 32

\* the hardware limits on mix buses and matrices: the X32/M32 has 16 and 6; a
\* Yamaha session records the counts of its model in its console configuration
DeclaredMaxAux(adapter) == IF adapter = "x32" THEN 16 ELSE mix.console.mixBusCount
DeclaredMaxMatrices(adapter) == IF adapter = "x32" THEN 6 ELSE mix.console.matrixCount

\* the manufacturer/model pairs an adapter supports
SupportedPair(adapter) ==
    IF adapter = "x32"
    THEN <<mix.console.manufacturer, mix.console.model>>
            \in { <<"behringer", "x32">>, <<"behringer", "m32">>, <<"midas", "x32">>, <<"midas", "m32">> }
    ELSE mix.console.manufacturer = "yamaha"
         /\ mix.console.model \in {"cl1", "cl3", "cl5", "ql1", "ql5", "tf1", "tf3", "tf5"}

\* C1: whenever validate is given a session with more channels than the target's
\* declared maximum (32 for X32/M32, the per-model limit for Yamaha), it returns
\* without throwing, with isValid = false and a non-empty errors list.
C1_TooManyChannelsRejected ==
    (Validated /\ NumChannels > DeclaredMaxChannels(last.adapter, mix.console.model))
        => (~last.out.threw /\ Rejected)

\* a Yamaha TF1 session of more than 16 channels has been validated by the Yamaha adapter
C1_Witness ==
    /\ Validated /\ last.adapter = "yamaha"
    /\ mix.console.manufacturer = "yamaha" /\ mix.console.model = "tf1"
    /\ NumChannels > 16
    /\ Rejected

HardIncompatible(adapter) ==
    \/ NumChannels > DeclaredMaxChannels(adapter, mix.console.model)
    \/ NumAux > DeclaredMaxAux(adapter)
    \/ NumMatrices > DeclaredMaxMatrices(adapter)
    \/ ~SupportedPair(adapter)

\* C2: an export of a session with a hard incompatibility (too many channels, mix
\* buses or matrices, or a wrong manufacturer/model pair) does not return
\* success = true and reports the incompatibility in errors.
C2_IncompatibleExportBlocked ==
    (Exported /\ HardIncompatible(last.adapter))
        => (~last.out.success /\ Len(last.out.errors) > 0)

\* C3: validate reports an error and isValid = false whenever the session's
\* manufacturer/model pair is not one the adapter supports.
C3_UnsupportedPairRejected ==
    (Validated /\ ~SupportedPair(last.adapter)) => Rejected

\* C4: validate reports an error and isValid = false whenever the session has more
\* mix buses, or more matrices, than the hardware limit of the selected model.
C4_TooManyBusesRejected ==
    (Validated /\ (NumAux > DeclaredMaxAux(last.adapter)
                   \/ NumMatrices > DeclaredMaxMatrices(last.adapter)))
        => Rejected

\* two elements of a collection share a number
SharesNumber(items) ==
    \E i, j \in 1..Len(items) : i # j /\ items[i].number = items[j].number

\* an element's number lies outside 1..limit
OutOfBounds(items, limit) ==
    \E i \in 1..Len(items) : items[i].number < 1 \/ items[i].number > limit

\* C5: validate rejects with an error a session in which two channels (or two
\* buses, or two DCAs) share a number, or a number lies outside the declared bounds.
C5_BadNumbersRejected ==
    (Validated /\ (\/ SharesNumber(mix.currentScene.channels)
                   \/ SharesNumber(Filter(mix.currentScene.buses, IsAux))
                   \/ SharesNumber(mix.currentScene.dcas)
                   \/ OutOfBounds(mix.currentScene.channels,
                                  DeclaredMaxChannels(last.adapter, mix.console.model))))
        => Rejected

\* the generators of the export that has run, each with its outcome
GeneratorsRun ==
    IF last.adapter = "x32" THEN X32Generators(mix) ELSE YamahaGenerators(mix, last.day)

\* C6: export never throws; when generating some file raises an exception, export
\* returns success = false, a non-empty errors list, and a files list holding every
\* file generated before the exception.
C6_ExportCatchesExceptions ==
    Exported =>
        LET gens == GeneratorsRun
            raising == {k \in 1..Len(gens) : gens[k].gen.threw}
        IN  /\ ~last.out.threw
            /\ raising # {} =>
                  /\ ~last.out.success
                  /\ Len(last.out.errors) > 0
                  /\ \A k \in 1..Len(gens) :
                        (\A r \in raising : k < r) =>
                            /\ k <= Len(last.out.files)
                            /\ last.out.files[k].filename = gens[k].filename
                            /\ last.out.files[k].content = gens[k].gen.content

\* a Yamaha export has failed after it had generated at least one file
C6_Witness ==
    /\ Exported /\ last.adapter = "yamaha"
    /\ \E k \in 1..Len(GeneratorsRun) : GeneratorsRun[k].gen.threw
    /\ ~last.out.success
    /\ Len(last.out.files) >= 1

\* C7: two export calls of one adapter on the same model return the same ordered
\* list of files with identical content in every file.
C7_ExportDeterministic ==
    [][(Exported /\ last'.op = "export" /\ last'.adapter = last.adapter /\ mix' = mix)
          => last'.out.files = last.out.files]_vars

SceneContent == last.out.files[1].content

\* the lines of a scene whose address lies under /ch/NN
ChannelRecord(content, n) ==
    SelectSeq(content, LAMBDA line :
        /\ Len(line) > 0
        /\ Len(line[1]) >= 4
        /\ SubSeq(line[1], 1, 3) = <<"/ch/">> \o Pad2(n))

HexDigitValue(c) == (CHOOSE i \in 1..16 : HexChars[i] = c) - 1

\* the positions of the bits set in the four hexadecimal digits of a group token
BitsOfGroupToken(token) ==
    LET value == 4096 * HexDigitValue(token[2]) + 256 * HexDigitValue(token[3])
                 + 16 * HexDigitValue(token[4]) + HexDigitValue(token[5])
    IN  {b \in 0..15 : (value \div Pow2(b)) % 2 = 1}

\* the DCA numbers a channel's assignments name: "dca-n" or a bare "n"
AssignedDcaNumbers(ch) ==
    LET ids == IF Has(ch.dcaAssignments) THEN Val(ch.dcaAssignments) ELSE <<>>
    IN  {n \in 0..MaxDca : \E k \in 1..Len(ids) : ids[k] = DcaId(n) \/ ids[k] = IntToStr(n)}

\* the channel the scene writes in slot n
ChannelInSlot(n) == Find(mix.currentScene.channels, LAMBDA ch : ch.number = n)

\* C9: in every channel's group record the hexadecimal bitmask has bit n-1 set
\* exactly when the channel is assigned DCA number n with 1 <= n <= 8; an
\* assignment outside 1..8 sets no bit and the export reports no error.
C9_DcaBitmask ==
    (Exported /\ last.adapter = "x32" /\ Has(mix.gig)) =>
        /\ last.out.success
        /\ \A n \in 1..32 :
              Has(ChannelInSlot(n)) =>
                  LET grp == SelectSeq(ChannelRecord(SceneContent, n),
                                       LAMBDA line : line[1][Len(line[1])] = "/grp")
                  IN  /\ Len(grp) = 1
                      /\ BitsOfGroupToken(grp[1][2])
                           = {k - 1 : k \in {x \in AssignedDcaNumbers(Val(ChannelInSlot(n))) :
                                               x >= 1 /\ x <= 8}}

\* an X32 export of a channel assigned DCA 5 and a DCA beyond 8 has succeeded
C9_Witness ==
    /\ Exported /\ last.adapter = "x32" /\ last.out.success
    /\ \E i \in 1..NumChannels :
          LET assigned == AssignedDcaNumbers(mix.currentScene.channels[i])
          IN  5 \in assigned /\ \E x \in assigned : x > 8

SubBlocks ==
    << "/config", "/preamp", "/gate", "/dyn", "/insert", "/eq", "/eq/1", "/eq/2", "/eq/3",
       "/eq/4", "/mix", "/grp", "/automix" >>

\* C10: for a session without channels the X32/M32 scene is not empty and holds,
\* for each of the channels 01..32, one complete record of default values.
C10_EmptySessionDefaults ==
    (Exported /\ last.adapter = "x32" /\ NumChannels = 0 /\ Has(mix.gig)) =>
        /\ last.out.success
        /\ Len(SceneContent) > 0
        /\ LET first == ChannelRecord(SceneContent, 1)
           IN  \A n \in 1..32 :
                  LET record == ChannelRecord(SceneContent, n)
                  IN  /\ Len(record) = Len(SubBlocks)
                      /\ \A k \in 1..Len(SubBlocks) :
                            /\ record[k][1][4] = SubBlocks[k]
                            /\ Tail(record[k]) = Tail(first[k])
                      /\ record[1][2] = Lit("\"\"")
                      /\ record[2][3] = Lit("OFF")
                      /\ record[12][2] = Lit("0x0000")

\* an X32 export of a session without channels has succeeded
C10_Witness ==
    /\ Exported /\ last.adapter = "x32" /\ last.out.success
    /\ NumChannels = 0

\* the addresses of the lines of a text, blank lines left out
Addresses(content) ==
    LET lines == SelectSeq(content, LAMBDA line : Len(line) > 0)
    IN  [k \in 1..Len(lines) |-> lines[k][1]]

\* the addresses of one hardware slot: its prefix followed by each sub-block
SlotAddresses(prefix, subs) == [k \in 1..Len(subs) |-> prefix \o <<subs[k]>>]

AuxInSubBlocks ==
    << "/config", "/preamp", "/eq", "/eq/1", "/eq/2", "/eq/3", "/eq/4", "/mix", "/grp" >>

OutputSubBlocks ==
    << "/config", "/dyn", "/insert", "/eq", "/eq/1", "/eq/2", "/eq/3", "/eq/4", "/eq/5",
       "/eq/6", "/mix", "/grp" >>

MatrixSubBlocks == SubSeq(OutputSubBlocks, 1, 11)

EffectSubBlocks == << "/type", "/source", "/par" >>

\* the addresses of a complete scene, in the order of the hardware slots
SceneAddresses ==
    << Lit("#2.1# X32 Scene"), Lit("/scene/name"), Lit("/scene/notes"), Lit("/config/chlink"),
       Lit("/config/auxlink"), Lit("/config/buslink"), Lit("/config/mtxlink"),
       Lit("/config/mute"), Lit("/config/linkcfg") >>
    \o Concat([i \in 1..32 |-> SlotAddresses(<<"/ch/">> \o Pad2(i), SubBlocks)])
    \o Concat([i \in 1..8 |-> SlotAddresses(<<"/auxin/">> \o Pad2(i), AuxInSubBlocks)])
    \o Concat([i \in 1..16 |-> SlotAddresses(<<"/bus/">> \o Pad2(i), OutputSubBlocks)])
    \o Concat([i \in 1..6 |-> SlotAddresses(<<"/mtx/">> \o Pad2(i), MatrixSubBlocks)])
    \o SlotAddresses(Lit("/main/st"), OutputSubBlocks)
    \o SlotAddresses(Lit("/main/m"), OutputSubBlocks)
    \o [i \in 1..8 |-> <<"/dca/">> \o IntToStr(i)]
    \o Concat([i \in 1..8 |-> SlotAddresses(<<"/fx/">> \o IntToStr(i), EffectSubBlocks)])

\* the tokens that follow an address in a scene, and <<>> when no line carries it
TokensAt(content, address) ==
    LET hits == SelectSeq(content, LAMBDA line : Len(line) > 0 /\ line[1] = address)
    IN  IF Len(hits) = 0 THEN <<>> ELSE Tail(hits[1])

\* a session names an element with number n in a collection
HasNumber(items, n) == \E i \in 1..Len(items) : items[i].number = n

\* C11: the scene file of every session starts with the line '#2.1# X32 Scene' and
\* holds every record of every hardware slot (channels 01..32, aux-ins 01..08, mix
\* buses 01..16, matrices 01..06, main stereo, mono/center, DCAs 1..8, effects 1..8)
\* in that order; a slot the session has no entry for carries its default record.
C11_SceneStructure ==
    (Exported /\ last.adapter = "x32" /\ Has(mix.gig)) =>
        LET scene == mix.currentScene
            content == SceneContent
        IN  /\ last.out.success
            /\ content[1] = <<Lit("#2.1# X32 Scene")>>
            /\ Addresses(content) = SceneAddresses
            /\ \A n \in 1..32 :
                  ~HasNumber(scene.channels, n) =>
                      TokensAt(content, <<"/ch/">> \o Pad2(n) \o <<"/config">>)
                          = <<Lit("\"\""), Lit("1"), Lit("GN"), Lit("1")>>
            /\ \A n \in 1..16 :
                  ~HasNumber(Filter(scene.buses, IsAux), n) =>
                      /\ TokensAt(content, <<"/bus/">> \o Pad2(n) \o <<"/config">>)
                            = <<Quoted(<<"MixBus ">> \o IntToStr(n)), IntToStr(70), IntToStr(4)>>
                      /\ TokensAt(content, <<"/bus/">> \o Pad2(n) \o <<"/mix">>)
                            = <<Lit("ON"), Lit("-oo")>>
            /\ \A n \in 1..6 :
                  ~HasNumber(Filter(scene.buses, IsMatrix), n) =>
                      /\ TokensAt(content, <<"/mtx/">> \o Pad2(n) \o <<"/config">>)
                            = <<Quoted(<<"Matrix ">> \o IntToStr(n)), Lit("71"), Lit("7")>>
                      /\ TokensAt(content, <<"/mtx/">> \o Pad2(n) \o <<"/mix">>)
                            = <<Lit("ON"), Lit("-oo")>>
            /\ \A n \in 1..8 :
                  /\ ~HasNumber(scene.dcas, n) =>
                        TokensAt(content, <<"/dca/">> \o IntToStr(n))
                            = <<Quoted(<<"DCA ">> \o IntToStr(n)), Lit("7"), Lit("ON"), Lit("0.0")>>
                  /\ ~(\E i \in 1..Len(scene.effects) : scene.effects[i].slot = n) =>
                        TokensAt(content, <<"/fx/">> \o IntToStr(n) \o <<"/type">>)
                            = <<Lit(IF n <= 4 THEN "HALL" ELSE "PEQ2")>>

\* an X32 export has succeeded for a session that fills some channel, bus and DCA
\* slots and leaves others empty, and that has more aux buses than the 16 slots
C11_Witness ==
    /\ Exported /\ last.adapter = "x32" /\ last.out.success
    /\ HasNumber(mix.currentScene.channels, 1) /\ ~HasNumber(mix.currentScene.channels, 32)
    /\ NumAux > 16
    /\ ~HasNumber(mix.currentScene.dcas, 1)

(***************************************************************************)
(* Properties of the Yamaha tables and documents                           *)
(***************************************************************************)
\* the file of the given name among the files the last export returned, as an optional
FileNamed(name) == Find(last.out.files, LAMBDA f : f.filename = <<name>>)

\* the rows of a name table whose identifier is that of number n
NameRowsOf(content, n) ==
    SelectSeq(content, LAMBDA line : Len(line) = 4 /\ line[1] = <<"_">> \o Pad2(n))

VeryLon == <<"V", "e", "r", "y", " ", "L", "o", "n">>

\* a channel the channel-name table lists that is called "Very Long Channel Name"
IsLongNamed(ch) == ch.name = VeryLongName /\ ch.type \in {"mono", "stereo"}

Spell(token) ==
    IF Len(token) # 1 THEN token
    ELSE CASE token[1] = "0.0" -> <<"0", ".", "0">>
           [] token[1] = "3.0" -> <<"3", ".", "0">>
           [] token[1] = "10.0" -> <<"1", "0", ".", "0">>
           [] token[1] = "60.0" -> <<"6", "0", ".", "0">>
           [] token[1] = "-12.0" -> <<"-", "1", "2", ".", "0">>
           [] token[1] = "-80.0" -> <<"-", "8", "0", ".", "0">>
           [] token[1] = "0.00" -> <<"0", ".", "0", "0">>
           [] OTHER -> token

\* a token is an optional minus sign, digits, a point and exactly d digits
HasDecimals(token, d) ==
    LET chars == Spell(token)
        body == IF Len(chars) > 0 /\ chars[1] = "-" THEN Tail(chars) ELSE chars
        point == Len(body) - d
    IN  /\ point >= 2
        /\ body[point] = "."
        /\ \A i \in 1..Len(body) : i # point => IsDigit(body[i])

\* the number a decimal token reads as, in hundredths
DecimalValue(token) ==
    LET chars == Spell(token)
        negative == chars[1] = "-"
        body == IF negative THEN Tail(chars) ELSE chars
        points == {i \in 1..Len(body) : body[i] = "."}
        point == IF points = {} THEN Len(body) + 1 ELSE CHOOSE i \in points : TRUE
        fraction == SubSeq(body, point + 1, Len(body))
        hundredths == IF Len(fraction) = 0 THEN 0
                      ELSE IF Len(fraction) = 1 THEN 10 * DigitValue(fraction[1])
                      ELSE 10 * DigitValue(fraction[1]) + DigitValue(fraction[2])
        magnitude == 100 * parseInt(SubSeq(body, 1, point - 1)) + hundredths
    IN  IF negative THEN 0 - magnitude ELSE magnitude

\* the tokens of a sub-block of channel slot n in the scene of the last export
ChannelTokens(n, sub) == TokensAt(SceneContent, <<"/ch/">> \o Pad2(n) \o <<sub>>)

\* the X32 adapter has written a scene for the session
SceneWritten == Exported /\ last.adapter = "x32" /\ Has(mix.gig)

\* the compressor of the channel written in slot n, as an optional
CompressorInSlot(n) ==
    LET ch == ChannelInSlot(n)
    IN  IF Has(ch) /\ Has(Val(ch).dynamics) THEN Some(Val(Val(ch).dynamics).compressor) ELSE None

\* C15 as stated: the dynamics record of every channel whose compressor has a ratio
\* of 20 or more carries LIM in the ratio position.
C15_LimiterToken ==
    SceneWritten =>
        \A n \in 1..32 :
            (Has(CompressorInSlot(n)) /\ Val(CompressorInSlot(n)).ratio >= 2000)
                => ChannelTokens(n, "/dyn")[6] = Lit("LIM")

\* C15, amended: the dynamics record of every channel whose compressor is enabled
\* carries LIM in the ratio position when the ratio is 20 or more and the ratio with
\* one decimal otherwise; a compressor that is not enabled is written as the default
\* record, ratio 3.0, whatever its ratio.
C15_LimiterTokenWhenEnabled ==
    SceneWritten =>
        \A n \in 1..32 :
            Has(CompressorInSlot(n)) =>
                LET c == Val(CompressorInSlot(n))
                    token == ChannelTokens(n, "/dyn")[6]
                IN  /\ (c.enabled /\ c.ratio >= 2000) => token = Lit("LIM")
                    /\ (c.enabled /\ c.ratio < 2000) =>
                          (token # Lit("LIM") /\ DecimalValue(token) = c.ratio)
                    /\ ~c.enabled => token = Lit("3.0")

\* the scene of a channel whose enabled compressor has a ratio of exactly 20 is written
C15_Witness ==
    /\ SceneWritten /\ last.out.success
    /\ \E n \in 1..32 :
          /\ Has(CompressorInSlot(n))
          /\ Val(CompressorInSlot(n)).enabled
          /\ Val(CompressorInSlot(n)).ratio = 2000
          /\ ChannelTokens(n, "/dyn")[6] = Lit("LIM")

\* the gate of the channel written in slot n, as an optional
GateInSlot(n) ==
    LET ch == ChannelInSlot(n)
    IN  IF Has(ch) /\ Has(Val(ch).dynamics) THEN Some(Val(Val(ch).dynamics).gate) ELSE None

\* the EQ bands of the channel written in slot n
BandsInSlot(n) ==
    LET ch == ChannelInSlot(n)
    IN  IF Has(ch) /\ Has(Val(ch).eq) THEN Val(Val(ch).eq).bands ELSE <<>>

EqSubBlocks == << "/eq/1", "/eq/2", "/eq/3", "/eq/4" >>

\* the gate record of slot n carries the threshold, range, attack, hold and release
\* of an enabled gate
GateVerbatim(n) ==
    LET g == Val(GateInSlot(n))
        tokens == ChannelTokens(n, "/gate")
    IN  g.enabled =>
            /\ DecimalValue(tokens[3]) = g.threshold
            /\ DecimalValue(tokens[4]) = g.range
            /\ tokens[5] = IntToStr(g.attack)
            /\ tokens[6] = IntToStr(g.hold)
            /\ tokens[7] = IntToStr(g.release)

\* the dynamics record of slot n carries the threshold, ratio (below 20:1), attack
\* and release of an enabled compressor
CompressorVerbatim(n) ==
    LET c == Val(CompressorInSlot(n))
        tokens == ChannelTokens(n, "/dyn")
    IN  c.enabled =>
            /\ DecimalValue(tokens[5]) = c.threshold
            /\ c.ratio < 2000 => DecimalValue(tokens[6]) = c.ratio
            /\ DecimalValue(tokens[8]) = c.attack
            /\ tokens[10] = IntToStr(c.release)

\* the dynamics record of slot n carries the make-up gain of an enabled compressor
MakeupVerbatim(n) ==
    LET c == Val(CompressorInSlot(n))
    IN  c.enabled => DecimalValue(ChannelTokens(n, "/dyn")[12]) = c.makeupGain

\* the EQ records of slot n carry the frequency, Q and gain of every band
BandsVerbatim(n) ==
    \A k \in 1..Min2(4, Len(BandsInSlot(n))) :
        LET band == BandsInSlot(n)[k]
            tokens == ChannelTokens(n, EqSubBlocks[k])
        IN  /\ tokens[2] = IntToStr(band.frequency)
            /\ tokens[3] = IntToStr(band.q)
            /\ DecimalValue(tokens[4]) = band.gain

\* C16: for every configured channel written to the scene, the gate, compressor and
\* EQ parameters of the session (thresholds, range, attack, hold, release, ratio,
\* make-up gain, band frequency, Q and gain) are the values of the corresponding
\* tokens of the channel's gate, dyn and eq records.
C16_ParametersVerbatim ==
    SceneWritten =>
        \A n \in 1..32 :
            /\ Has(GateInSlot(n)) => GateVerbatim(n)
            /\ Has(CompressorInSlot(n)) => (CompressorVerbatim(n) /\ MakeupVerbatim(n))
            /\ BandsVerbatim(n)

\* all parameters but the make-up gain are written as the session gives them
C16_AllButMakeup ==
    SceneWritten =>
        \A n \in 1..32 :
            /\ Has(GateInSlot(n)) => GateVerbatim(n)
            /\ Has(CompressorInSlot(n)) => CompressorVerbatim(n)
            /\ BandsVerbatim(n)

\* the fader token of a record is '-oo' for a level at or below -90 dB, and else a
\* number within half a tenth of a dB of the level
RendersFader(token, fader) ==
    IF fader <= -9000 THEN token = Lit("-oo")
    ELSE /\ token # Lit("-oo")
         /\ DecimalValue(token) - fader <= 5
         /\ fader - DecimalValue(token) <= 5

\* the aux bus, the matrix and the DCA the scene writes in slot n
AuxInSlot(n) == Find(Filter(mix.currentScene.buses, IsAux), LAMBDA b : b.number = n)
MatrixInSlot(n) == Find(Filter(mix.currentScene.buses, IsMatrix), LAMBDA b : b.number = n)
DcaInSlot(n) == Find(mix.currentScene.dcas, LAMBDA d : d.number = n)

\* C17: for every channel, bus, matrix and DCA written to the scene that has a fader
\* level f, the fader token is '-oo' when f is at or below -90 dB and the value f
\* (to one decimal) otherwise.
C17_FaderFloor ==
    SceneWritten =>
        /\ \A n \in 1..32 :
              Has(ChannelInSlot(n)) =>
                  RendersFader(ChannelTokens(n, "/mix")[2], Val(ChannelInSlot(n)).fader)
        /\ \A n \in 1..16 :
              (Has(AuxInSlot(n)) /\ Has(Val(AuxInSlot(n)).fader)) =>
                  RendersFader(TokensAt(SceneContent, <<"/bus/">> \o Pad2(n) \o <<"/mix">>)[2],
                               Val(Val(AuxInSlot(n)).fader))
        /\ \A n \in 1..6 :
              (Has(MatrixInSlot(n)) /\ Has(Val(MatrixInSlot(n)).fader)) =>
                  RendersFader(TokensAt(SceneContent, <<"/mtx/">> \o Pad2(n) \o <<"/mix">>)[2],
                               Val(Val(MatrixInSlot(n)).fader))
        /\ \A n \in 1..8 :
              (Has(DcaInSlot(n)) /\ Has(Val(DcaInSlot(n)).fader)) =>
                  RendersFader(TokensAt(SceneContent, <<"/dca/">> \o IntToStr(n))[4],
                               Val(Val(DcaInSlot(n)).fader))

\* a scene is written for a session whose channel, bus, matrix and DCA faders all
\* stand exactly at -90 dB
C17_Witness ==
    /\ SceneWritten /\ last.out.success
    /\ Has(ChannelInSlot(1)) /\ Has(AuxInSlot(1)) /\ Has(MatrixInSlot(1)) /\ Has(DcaInSlot(1))
    /\ Val(ChannelInSlot(1)).fader = -9000
    /\ Val(AuxInSlot(1)).fader = Some(-9000)
    /\ Val(MatrixInSlot(1)).fader = Some(-9000)
    /\ Val(DcaInSlot(1)).fader = Some(-9000)
    /\ ChannelTokens(1, "/mix")[2] = Lit("-oo")

\* the dB tokens of channel slot n other than the EQ band gains: preamp gain, gate
\* threshold and range, compressor threshold and make-up gain, and a finite fader
LevelTokens(n) ==
    LET fader == ChannelTokens(n, "/mix")[2]
    IN  << ChannelTokens(n, "/preamp")[1],
           ChannelTokens(n, "/gate")[3], ChannelTokens(n, "/gate")[4],
           ChannelTokens(n, "/dyn")[5], ChannelTokens(n, "/dyn")[12] >>
        \o (IF fader = Lit("-oo") THEN <<>> ELSE <<fader>>)

\* the finite fader tokens of the mix buses, matrices and DCAs
OutputFaderTokens ==
    LET tokens == [n \in 1..16 |-> TokensAt(SceneContent, <<"/bus/">> \o Pad2(n) \o <<"/mix">>)[2]]
                  \o [n \in 1..6 |-> TokensAt(SceneContent, <<"/mtx/">> \o Pad2(n) \o <<"/mix">>)[2]]
                  \o [n \in 1..8 |-> TokensAt(SceneContent, <<"/dca/">> \o IntToStr(n))[4]]
    IN  SelectSeq(tokens, LAMBDA t : t # Lit("-oo"))

\* the EQ band gain tokens of channel slot n
BandGainTokens(n) == [k \in 1..4 |-> ChannelTokens(n, EqSubBlocks[k])[4]]

\* every token of a sequence has exactly d decimals
AllHaveDecimals(tokens, d) == \A k \in 1..Len(tokens) : HasDecimals(tokens[k], d)

\* C18 as stated: every dB token of the scene (preamp gain, gate and compressor
\* thresholds, gate range, make-up gain, EQ band gain, finite faders) has exactly
\* one decimal place.
C18_OneDecimal ==
    SceneWritten =>
        /\ \A n \in 1..32 : AllHaveDecimals(LevelTokens(n) \o BandGainTokens(n), 1)
        /\ AllHaveDecimals(OutputFaderTokens, 1)

\* C18, amended: preamp gain, gate and compressor thresholds, gate range, make-up
\* gain and finite faders have exactly one decimal place; EQ band gains have
\* exactly two.
C18_OneDecimalButBandGain ==
    SceneWritten =>
        /\ \A n \in 1..32 :
              /\ AllHaveDecimals(LevelTokens(n), 1)
              /\ AllHaveDecimals(BandGainTokens(n), 2)
        /\ AllHaveDecimals(OutputFaderTokens, 1)

\* a scene is written for a channel whose four EQ bands have a gain of 12.25 dB
C18_Witness ==
    /\ SceneWritten /\ last.out.success
    /\ Len(BandsInSlot(1)) = 4
    /\ \A k \in 1..4 : BandsInSlot(1)[k].gain = 1225

\* a line of a Markdown table names a channel by its number and its name, in the
\* first two columns
NamesChannel(line, ch) ==
    /\ Len(line) = 1
    /\ Includes(line[1], <<"| ">> \o IntToStr(ch.number) \o <<" | ">> \o ch.name \o <<" | ">>)

\* C20: for every channel with phantomPower = "on" and no microphone note, the
\* phantom-power document holds at least one line that names the channel by its
\* number and its name.
C20_PhantomChannelListed ==
    (Exported /\ last.adapter = "yamaha" /\ Has(FileNamed("PhantomPower.md"))) =>
        LET doc == Val(FileNamed("PhantomPower.md")).content
        IN  \A i \in 1..NumChannels :
                LET ch == mix.currentScene.channels[i]
                IN  (IsPhantomOn(ch) /\ ~Has(ch.notes)) =>
                        \E k \in 1..Len(doc) : NamesChannel(doc[k], ch)

\* the Yamaha adapter has written the phantom-power document of a session with a
\* channel that needs phantom power and has neither a note nor a source description
C20_Witness ==
    /\ Exported /\ last.adapter = "yamaha" /\ Has(FileNamed("PhantomPower.md"))
    /\ \E i \in 1..NumChannels :
          LET ch == mix.currentScene.channels[i]
          IN  IsPhantomOn(ch) /\ ~Has(ch.notes) /\ ~Has(ch.sourceDescription)

(***************************************************************************)
(* Properties of the helpers and of the build_mix tool                     *)
(***************************************************************************)
Truncated == last.op = "truncateName"
ColorEncoded == last.op = "color"
Built == last.op = "build_mix" /\ last.out.success

\* C12: for every name and every limit n (8 or 12), truncateName returns the name
\* itself when it has at most n characters and otherwise exactly its first n
\* characters; the result never has more than n characters, and truncating the
\* result again changes nothing
C12_TruncateName ==
    Truncated =>
        /\ last.maxLength \in {8, 12}
        /\ Len(last.name) <= last.maxLength => last.out = last.name
        /\ Len(last.name) > last.maxLength =>
               /\ Len(last.out) = last.maxLength
               /\ \A i \in 1..last.maxLength : last.out[i] = last.name[i]
        /\ Len(last.out) <= last.maxLength
        /\ last.again = last.out

\* a name of 14 characters has been cut to its first 8
C12_Witness ==
    /\ Truncated
    /\ last.name = Substring0(VeryLongName, 14)
    /\ last.maxLength = 8
    /\ last.out = <<"V", "e", "r", "y", " ", "L", "o", "n">>

\* the stagebox of the request behind the last call, and its slot
RequestedStagebox == Val(last.input.stagebox)
RequestedSlot == Val(RequestedStagebox.slot)
SlotRequested == Built /\ Has(last.input.stagebox) /\ Has(RequestedStagebox.slot)

\* C14: when a mix is built for a stagebox in slot s >= 1, the built mix records one
\* stagebox and its Dante start channel is (s - 1) * inputCount + 1, inputCount
\* being the input count recorded for that stagebox
C14_DanteStartChannel ==
    SlotRequested /\ RequestedSlot >= 1 =>
        /\ Len(mix.console.stageboxes) = 1
        /\ mix.console.stageboxes[1].danteStartChannel =
               (RequestedSlot - 1) * mix.console.stageboxes[1].inputCount + 1

\* a mix has been built for a stagebox in slot 2: 16 inputs, Dante channels from 17
C14_Witness ==
    /\ SlotRequested
    /\ RequestedSlot = 2
    /\ mix.console.stageboxes[1].inputCount = 16
    /\ mix.console.stageboxes[1].danteStartChannel = 17

\* C19: every color encoder returns the entry of its table for a name the table
\* has, and the white value (X32 index 7, Yamaha "White") for any other name
C19_ColorEncoders ==
    ColorEncoded =>
        LET key == toLowerCase(last.name)
        IN  IF key \in X32ColorKeys
            THEN /\ last.x32 = X32ColorTable[key]
                 /\ last.index = X32ColorTable[key]
                 /\ last.yamaha = Val(YAMAHA_COLOR_NAMES(key))
            ELSE /\ last.x32 = 7
                 /\ last.index = 7
                 /\ last.yamaha = "White"

\* what the encoders do instead: the X32 channel encoder writes 7 for the two names
\* whose entry is 0, and colorNameToIndex answers 0 for a name the table lacks
C19_EncodersAsWritten ==
    ColorEncoded =>
        LET key == toLowerCase(last.name)
        IN  IF key \in X32ColorKeys
            THEN /\ last.x32 = (IF X32ColorTable[key] = 0 THEN 7 ELSE X32ColorTable[key])
                 /\ last.index = X32ColorTable[key]
                 /\ last.yamaha = Val(YAMAHA_COLOR_NAMES(key))
            ELSE /\ last.x32 = 7
                 /\ last.index = 0
                 /\ last.yamaha = "White"

(***************************************************************************)
(* Properties of the warnings of the Yamaha export                         *)
(***************************************************************************)
YamahaExported == Exported /\ last.adapter = "yamaha"

\* the export result carries a warning that ends with the given text
WarnsWith(text) ==
    \E i \in 1..Len(last.out.warnings) :
        last.out.warnings[i][Len(last.out.warnings[i])] = text

PhantomWarned == WarnsWith(" kanal(er) kraver +48V")
LongNameWarned == WarnsWith(" kanal(er) har namn langre an 8 tecken")

SomeChannelNeedsPhantom ==
    \E i \in 1..Len(mix.currentScene.channels) :
        /\ Has(mix.currentScene.channels[i].input)
        /\ Val(mix.currentScene.channels[i].input).phantomPower = "on"

\* the name that a name table writes for an entry is longer than 8 characters
TableNameCut(entry) == Len(OrElse(entry.shortName, entry.name)) > 8

SomeChannelNameCut ==
    \E i \in 1..Len(mix.currentScene.channels) : TableNameCut(mix.currentScene.channels[i])

SomeOutputNameCut ==
    \/ \E i \in 1..Len(mix.currentScene.buses) :
          /\ mix.currentScene.buses[i].type \in {"aux", "matrix"}
          /\ TableNameCut(mix.currentScene.buses[i])
    \/ \E i \in 1..Len(mix.currentScene.dcas) : TableNameCut(mix.currentScene.dcas[i])

\* C21: the result of a Yamaha export carries a warning whenever a channel requires
\* phantom power, and a warning whenever a name written to the channel, mix, matrix
\* or DCA table is cut
C21_ExportWarns ==
    YamahaExported =>
        /\ SomeChannelNeedsPhantom => PhantomWarned
        /\ SomeChannelNameCut \/ SomeOutputNameCut => LongNameWarned

\* what the export does: a successful export warns about phantom power and about
\* the names of channels, and counts no other name
C21_SuccessfulExportWarnsOfChannels ==
    YamahaExported /\ last.out.success =>
        /\ SomeChannelNeedsPhantom <=> PhantomWarned
        /\ SomeChannelNameCut <=> LongNameWarned

(***************************************************************************)
(* Properties of the guidance documents                                    *)
(***************************************************************************)
\* the lines of the document of the given name (none when the export lacks it)
Doc(name) == IF Has(FileNamed(name)) THEN Val(FileNamed(name)).content ELSE <<>>

HasLine(doc, text) == \E k \in 1..Len(doc) : doc[k] = <<Lit(text)>>

\* the index of the first line of a document that reads as the given text
LineIndex(doc, text) == CHOOSE k \in 1..Len(doc) : doc[k] = <<Lit(text)>>

NoGateEnabled ==
    \A i \in 1..NumChannels :
        Has(mix.currentScene.channels[i].dynamics) =>
            ~Val(mix.currentScene.channels[i].dynamics).gate.enabled

NoCompressorEnabled ==
    \A i \in 1..NumChannels :
        Has(mix.currentScene.channels[i].dynamics) =>
            ~Val(mix.currentScene.channels[i].dynamics).compressor.enabled

\* the part of the effects document between its introduction and the heading of the
\* send levels holds at least one line
EffectsSectionFilled ==
    /\ HasLine(Doc("Effects_Rack.md"), "## FX Send-nivaer")
    /\ LineIndex(Doc("Effects_Rack.md"), "## FX Send-nivaer") > 5

\* C22: when the session has no channel with phantom power, no enabled gate, no
\* enabled compressor or no effect, the section of the guidance document about it
\* holds an explicit line saying so instead of being empty
C22_NothingRequiredLines ==
    YamahaExported =>
        /\ Has(FileNamed("PhantomPower.md")) /\ ~SomeChannelNeedsPhantom =>
               HasLine(Doc("PhantomPower.md"), "*Inga kanaler kraver fantommatning.*")
        /\ Has(FileNamed("Dynamics_Guide.md")) /\ NoGateEnabled =>
               HasLine(Doc("Dynamics_Guide.md"), "*Ingen gate konfigurerad.*")
        /\ Has(FileNamed("Dynamics_Guide.md")) /\ NoCompressorEnabled =>
               HasLine(Doc("Dynamics_Guide.md"), "*Ingen kompression konfigurerad.*")
        /\ Has(FileNamed("Effects_Rack.md")) /\ Len(mix.currentScene.effects) = 0 =>
               EffectsSectionFilled

\* what the documents do hold: the lines for phantom power, gates and compressors
C22_AllButEffects ==
    YamahaExported =>
        /\ Has(FileNamed("PhantomPower.md")) /\ ~SomeChannelNeedsPhantom =>
               HasLine(Doc("PhantomPower.md"), "*Inga kanaler kraver fantommatning.*")
        /\ Has(FileNamed("Dynamics_Guide.md")) /\ NoGateEnabled =>
               HasLine(Doc("Dynamics_Guide.md"), "*Ingen gate konfigurerad.*")
        /\ Has(FileNamed("Dynamics_Guide.md")) /\ NoCompressorEnabled =>
               HasLine(Doc("Dynamics_Guide.md"), "*Ingen kompression konfigurerad.*")

\* the guidance documents of a Yamaha export
GuidanceDocs ==
    {"MASTER.md", "PhantomPower.md", "GainSheet.md", "EQ_Guide.md", "Dynamics_Guide.md",
     "Effects_Rack.md", "Premium_Rack.md", "Monitor_Guide.md", "README.md"}

\* some guidance document of the last export has a line that names the channel and
\* carries the given characters
Documented(ch, value) ==
    \E name \in GuidanceDocs :
        \E k \in 1..Len(Doc(name)) :
            /\ NamesChannel(Doc(name)[k], ch)
            /\ Includes(Doc(name)[k][1], value)

GainDocumented(ch) == Has(ch.input) => Documented(ch, NumToStr(Val(ch.input).gain))

EqDocumented(ch) ==
    Has(ch.eq) =>
        /\ Val(ch.eq).highPassFilter.enabled =>
               Documented(ch, IntToStr(Val(ch.eq).highPassFilter.frequency))
        /\ \A b \in 1..Len(Val(ch.eq).bands) :
               Val(ch.eq).bands[b].enabled =>
                   /\ Documented(ch, NumToStr(Val(ch.eq).bands[b].gain))
                   /\ Documented(ch, IntToStr(Val(ch.eq).bands[b].frequency))

DynamicsDocumented(ch) ==
    Has(ch.dynamics) =>
        /\ Val(ch.dynamics).gate.enabled =>
               Documented(ch, NumToStr(Val(ch.dynamics).gate.threshold))
        /\ Val(ch.dynamics).compressor.enabled =>
               Documented(ch, NumToStr(Val(ch.dynamics).compressor.threshold))

SendsDocumented(ch) ==
    \A k \in 1..Min2(2, Len(ch.effectSends)) : Documented(ch, NumToStr(ch.effectSends[k].level))

FaderDocumented(ch) == Documented(ch, NumToStr(ch.fader))

\* C23: after a successful Yamaha export, the gain, the equaliser, the enabled gate
\* and compressor, the fader level and the effect sends of every channel stand in a
\* line of some guidance document that names the channel
C23_SettingsDocumented ==
    YamahaExported /\ last.out.success =>
        \A i \in 1..NumChannels :
            /\ GainDocumented(mix.currentScene.channels[i])
            /\ EqDocumented(mix.currentScene.channels[i])
            /\ DynamicsDocumented(mix.currentScene.channels[i])
            /\ SendsDocumented(mix.currentScene.channels[i])
            /\ FaderDocumented(mix.currentScene.channels[i])

\* what the documents do carry: everything named above but the fader level
C23_AllButFader ==
    YamahaExported /\ last.out.success =>
        \A i \in 1..NumChannels :
            /\ GainDocumented(mix.currentScene.channels[i])
            /\ EqDocumented(mix.currentScene.channels[i])
            /\ DynamicsDocumented(mix.currentScene.channels[i])
            /\ SendsDocumented(mix.currentScene.channels[i])

(***************************************************************************)
(* Properties of the adapter registry                                      *)
(***************************************************************************)
\* the registerAdapter calls that have run and that name the pair
RegistrationsOf(manufacturer, model) ==
    { k \in 1..Len(Registrations) :
        /\ Registrations[k].module \in loadedModules
        /\ Registrations[k].manufacturer = manufacturer
        /\ model \in Registrations[k].models }

\* C24: a getAdapter call leaves the registry as it was; it returns null exactly when
\* no registerAdapter call has named the pair, and otherwise an adapter of the class
\* that the factory registered for the pair builds
C24_RegistryLookup ==
    [][last'.op = "getAdapter" =>
          /\ adapterRegistry' = adapterRegistry
          /\ loadedModules' = loadedModules
          /\ last'.out = None <=> RegistrationsOf(last'.manufacturer, last'.model) = {}
          /\ \A k \in RegistrationsOf(last'.manufacturer, last'.model) :
                 last'.out = Some([class |-> Registrations[k].factory.builds])]_vars

\* a lookup of midas/m32 has returned an X32Adapter
C24_Witness ==
    /\ last.op = "getAdapter"
    /\ last.manufacturer = "midas"
    /\ last.model = "m32"
    /\ last.out = Some([class |-> "X32Adapter"])

(***************************************************************************)
(* Properties of the generate_files tool                                   *)
(***************************************************************************)
Generated == last.op = "generate_files"

\* the tool was handed a session, which always has a currentScene.channels list
YamahaCsvRequested == Generated /\ last.format = "yamaha-csv" /\ last.arg = "mix"

\* the reply reports success and lists InName.csv as a CSV file
RepliesWithInName ==
    /\ last.out.success
    /\ \E i \in 1..Len(last.out.files) :
           /\ last.out.files[i].name = <<"InName.csv">>
           /\ last.out.files[i].type = "csv"

\* C25: the tool called with format yamaha-csv on a session that has a channel list,
\* empty or not, replies with success and with InName.csv among its CSV files
C25_YamahaCsvSucceeds == YamahaCsvRequested => RepliesWithInName

\* the same for the sessions that the Yamaha adapter exports without an error
C25_ExportableSessionSucceeds ==
    (YamahaCsvRequested /\ YamahaAdapter_export(mix, 1).success) => RepliesWithInName

\* a session of no channel has been turned into tables, InName.csv among them
C25_EmptySessionSucceeds ==
    /\ YamahaCsvRequested
    /\ NumChannels = 0
    /\ RepliesWithInName

(***************************************************************************)
(* Properties of the channels of an accepted session in the scene file     *)
(***************************************************************************)
\* the X32 adapter has exported a session that its validate call accepts
AcceptedSessionExported ==
    /\ Exported /\ last.adapter = "x32" /\ last.out.success
    /\ X32Adapter_validate(mix).isValid

\* the config record at /ch/NN, NN the number of the channel, carries its name
InSceneFile(ch) ==
    LET tokens == TokensAt(SceneContent, <<"/ch/">> \o Pad2(ch.number) \o <<"/config">>)
    IN  /\ Len(tokens) > 0
        /\ tokens[1] = Quoted(truncateName(OrElse(ch.shortName, ch.name), 12))

\* C26: in the scene file of a session that validate accepts, every channel of the
\* session has its name, cut to 12 characters, in the config record at /ch/NN, NN
\* being the number of the channel
C26_AcceptedChannelsInScene ==
    AcceptedSessionExported =>
        \A i \in 1..NumChannels : InSceneFile(mix.currentScene.channels[i])

\* the same for the sessions whose channel numbers are distinct and lie in 1..32
C26_NumberedChannelsInScene ==
    (/\ AcceptedSessionExported
     /\ ~SharesNumber(mix.currentScene.channels)
     /\ ~OutOfBounds(mix.currentScene.channels, 32)) =>
        \A i \in 1..NumChannels : InSceneFile(mix.currentScene.channels[i])

\* an accepted session of 32 channels has been exported with every channel in place
C26_FullSessionInScene ==
    /\ AcceptedSessionExported
    /\ NumChannels = 32
    /\ \A i \in 1..NumChannels : InSceneFile(mix.currentScene.channels[i])

(***************************************************************************)
(* Properties of the session manager                                       *)
(***************************************************************************)
\* the operations on a session that the expiry of sessions concerns
SessionOperations ==
    {"get", "update", "addMessage", "getHistory", "addUploadedFile", "markFileParsed",
     "setCurrentMix", "getCurrentMix", "updatePreferences"}

\* a call returns nothing of a session: undefined, null, no message, or no value
ReturnsNoData(out) == out \in {None, <<>>}

\* C27: an operation of the session manager on a session older than the 24 hours of
\* the maximum age returns none of its data and leaves it as it was, or removes it
C27_ExpiredSessionUntouched ==
    [][(/\ last'.op \in SessionOperations
        /\ last'.id \in DOMAIN sessions
        /\ Expired(sessions[last'.id], now))
       => /\ ReturnsNoData(last'.out)
          /\ \/ last'.id \notin DOMAIN sessions'
             \/ sessions'[last'.id] = sessions[last'.id]]_vars

\* the same for get, the one operation that compares the age of the session
C27_ExpiredSessionNotGot ==
    [][(/\ last'.op = "get"
        /\ last'.id \in DOMAIN sessions
        /\ Expired(sessions[last'.id], now))
       => /\ last'.out = None
          /\ last'.id \notin DOMAIN sessions']_vars

\* a session older than 24 hours is still stored
C27_ExpiredSessionStored ==
    \E id \in DOMAIN sessions : Expired(sessions[id], now)

(***************************************************************************)
(* Properties of the chat hook                                             *)
(***************************************************************************)
\* the call c returns in this step without having been aborted
Returns(c) ==
    /\ c \in 1..Len(calls)
    /\ calls[c].pc # "returned"
    /\ ~calls[c].aborted
    /\ calls'[c].pc = "returned"

\* C28: a sendMessage call whose response has carried an error event returns with
\* the error state set to the message of that event and with isLoading and
\* isStreaming both false
C28_ErrorEventReported ==
    [][\A c \in 1..MaxCalls :
          (Returns(c) /\ Has(calls[c].errorEvent))
              => /\ chat'.error = calls[c].errorEvent
                 /\ ~chat'.isLoading
                 /\ ~chat'.isStreaming]_vars

\* what does hold of such a call: it returns with isLoading and isStreaming false
C28_ErrorEventEndsLoading ==
    [][\A c \in 1..MaxCalls :
          (Returns(c) /\ Has(calls[c].errorEvent))
              => (~chat'.isLoading /\ ~chat'.isStreaming)]_vars

\* a call has returned after an error event and the hook reports no error
C28_ErrorEventSwallowed ==
    \E c \in 1..Len(calls) :
        /\ calls[c].pc = "returned"
        /\ ~calls[c].aborted
        /\ Has(calls[c].errorEvent)
        /\ chat.error = None

\* msg.isStreaming is set and true
MessageStreams(msg) == msg.isStreaming = Some(TRUE)

\* C29: while the isStreaming flag of the hook is false, no message of the list has
\* isStreaming = true
C29_NoStreamingMessage ==
    ~chat.isStreaming => \A k \in 1..Len(chat.messages) : ~MessageStreams(chat.messages[k])

\* the same while no call has been superseded by a later sendMessage
C29_NoStreamingMessageUnlessSuperseded ==
    (~chat.isStreaming /\ \A c \in 1..Len(calls) : calls[c].aborted => abortControllerRef = None)
        => \A k \in 1..Len(chat.messages) : ~MessageStreams(chat.messages[k])

\* the second call has completed while the message of the first, aborted by the
\* second, still has isStreaming = true
C29_SupersededMessageStreams ==
    /\ Len(calls) = 2
    /\ calls[1].aborted /\ calls[2].pc = "returned"
    /\ ~chat.isStreaming
    /\ \E k \in 1..Len(chat.messages) : MessageStreams(chat.messages[k])

(***************************************************************************)
(* Properties of the event stream of the endpoint                          *)
(***************************************************************************)
\* start(controller) has ended, by returning or by raising
RequestEnded == stream.pc \in {"returned", "rejected"}

TerminalPositions == {k \in 1..Len(stream.events) : stream.events[k] \in {"done", "error"}}

\* no terminal event yet, or one terminal event that is the last event
TerminalEventLast ==
    TerminalPositions = {} \/ TerminalPositions = {Len(stream.events)}

\* C30: the stream of a request is closed once at most and carries no event after a
\* done or an error event and never both; when the handler has ended the stream has
\* been closed exactly once and its last event is its one terminal event
C30_OneTerminalEvent ==
    /\ stream.closes <= 1
    /\ TerminalEventLast
    /\ RequestEnded => (stream.closes = 1 /\ TerminalPositions = {Len(stream.events)})

\* the same for the requests that the client does not cancel
C30_OneTerminalEventUnlessCancelled ==
    /\ stream.closes <= 1
    /\ TerminalEventLast
    /\ (RequestEnded /\ ~stream.cancelled)
           => (stream.closes = 1 /\ TerminalPositions = {Len(stream.events)})

\* a request has ended with done after text and a tool call
C30_StreamDone ==
    /\ stream.pc = "returned"
    /\ stream.events[Len(stream.events)] = "done"
    /\ \E k \in 1..Len(stream.events) : stream.events[k] = "tool"

\* a cancelled request has ended with no terminal event
C30_CancelledStreamOpen ==
    /\ stream.pc = "rejected"
    /\ TerminalPositions = {}

====
